---- MODULE Spec2Model ----
(***************************************************************************)
(* The gateway wrapper of src/src/server.js as a state machine.            *)
(*                                                                         *)
(* The wrapper is a single-threaded Node.js program: one action of this    *)
(* module is one turn of the event loop (an HTTP request handler, a timer  *)
(* callback, a child-process event, the completion of an awaited I/O)      *)
(* together with every promise continuation (microtask) that turn makes    *)
(* runnable, in the order the microtask queue runs them.  The code of a    *)
(* function is an operator from a state record to a state record, so that  *)
(* calls compose the way the source composes them; an action applies the   *)
(* handler's operator to the current state and commits the result.         *)
(***************************************************************************)
EXTENDS Integers, Sequences, FiniteSets, TLC

\* ------------------------------------------------------------------ bounds
\* Worker process handles that are alive, or still awaited, at one time.
MaxLive == 2
\* Supervisor calls suspended at an await at one time: callers awaiting the
\* in-flight attempt, restartGateway calls in their kill-wait, stop-type
\* handlers in their sleep.
MaxCalls == 2
\* Detached background probes alive at one time.
MaxBg == 1
MaxClients == 3   \* clients handed to the proxy at the same time
MaxPty == 2       \* pseudo-terminals of the terminal session alive at one time
MaxBuf == 10      \* characters in the line editor's buffer
MaxPath == 4      \* characters of an archive entry's path, the examples apart
MaxImports == 1   \* import requests being handled at the same time
MaxExports == 1   \* export requests being streamed at the same time
MaxChunks == 4    \* 'data' events of one upload
MaxCmds == 2      \* runCmd calls in the model
MaxConns == 3     \* connections open on the wrapper's server

\* ------------------------------------------------------- program constants
RESTART_BASE_DELAY_MS == 2000
RESTART_MAX_DELAY_MS == 60000
RESTART_MAX_ATTEMPTS == 10

Procs == 1..MaxLive

\* The (code, signal) pairs of a child-process 'exit' event; code -1 is null.
ExitEvents ==
  { [code |-> 0, signal |-> "null"],
    [code |-> 1, signal |-> "null"],
    [code |-> -1, signal |-> "SIGTERM"],
    [code |-> -1, signal |-> "SIGKILL"] }

NoExit == [code |-> -1, signal |-> "none", killed |-> FALSE]

\* Who awaits the in-flight attempt: the restart-timer callback, the HTTP
\* fallback handler, the WebSocket upgrade handler, any other caller (the
\* tail of restartGateway, boot, gateway.start, onboarding of a configured
\* instance).
AwaitKinds == {"timer", "proxy", "ws", "call"}

\* Handlers that stop the worker with kill + sleep(750) + "gatewayProc = null":
\* stop stands for gateway.stop and the head of an import, which go on without
\* touching the supervisor's state; reset for reset and wipe, which then
\* delete the config file.
StopKinds == {"stop", "reset"}

\* Positions of a detached background probe: between two connects, or with a
\* successful connect whose result has not reached it yet.
BgPcs == {"sleep", "probeOk"}

\* Positions of the in-flight attempt (the async function held by
\* gatewayStarting); "null" is no attempt, "started" is the continuation of
\* 'await startGateway()' waiting in the microtask queue, "sleep" is
\* waitForGatewayReady between two connects, "probeOk" a successful connect
\* whose result has not reached the loop yet.
AttemptPcs == {"null", "started", "cleanupSleep", "sleep", "probeOk", "doctor"}

FreeProc == [st |-> "free", listening |-> FALSE]

NoBatch == [open |-> FALSE, spawns |-> 0]

\* What the last turn did, for the properties that speak of one event:
\*   exit       the 'exit' event it handled; killed: a restartGateway call was
\*              waiting for that process to exit
\*   delay      the delay (ms) it armed the restart timer with, 0 if none
\*   proxy      what the fallback handler did with a request
\*   ws         what the upgrade handler did with a non-terminal upgrade;
\*              wsArrived: the upgrade arrived in this turn
\*   spawnOver  it spawned a worker while a restart's old worker was alive
\*   settled    an attempt that started with no worker in existence settled
\*   spawns, callers, outcomes   that attempt's spawns, the calls that awaited
\*              it and the outcomes they got
NoObs == [exit |-> NoExit, delay |-> 0, proxy |-> "none", spawnOver |-> FALSE,
          settled |-> FALSE, spawns |-> 0, callers |-> 0, outcomes |-> {},
          ws |-> "none", wsArrived |-> FALSE]

VARIABLES
  configured,        \* isConfigured(): the config file exists
  gatewayProc,       \* the handle the supervisor holds; 0 is null
  gatewayStarting,   \* the in-flight attempt's position; "null" is none
  _gatewayReady,
  _intentionalKill,
  _restartAttempts,
  _restartTimer,     \* whether _restartTimer holds a timer (is not null)
  timers,            \* the timeouts armed by scheduleGatewayRestart and still pending
  procs,             \* the worker processes the wrapper has spawned
  killWait,          \* restartGateway calls waiting for the exit of a process
  awaiting,          \* callers awaiting gatewayStarting, by kind
  stopping,          \* stop-type handlers in their sleep(750)
  bgProbe,           \* detached background probes, by position
  batch,             \* observation: the spawns of the current attempt
  counting,          \* observation: whether crashes is kept in this behaviour
  crashes,           \* observation: consecutive unexpected exits (see countCrash)
  obs,               \* observation: what the last turn did
  clients,           \* the responses and sockets handed to the proxy
  TERMINAL_FULL_ACCESS,  \* read from the environment when the module loads
  session,           \* the terminal connection's handler: "none" before it connects
  wsOpen,            \* the terminal WebSocket is open
  inputBuf,          \* handleRestrictedTerminal: the line being edited
  activePty,         \* handleRestrictedTerminal: the handle it holds; 0 is null
  term,              \* handleFullTerminal: its shell's handle; 0 is none
  ptys,              \* the pseudo-terminal processes spawned for the session
  suspended,         \* a message handler waiting in a pseudo-command, with the
                     \* characters of its message it has not looked at yet
  tobs,              \* observation: what the last turn of the terminal did
  archive,           \* import: the entries tar.x has not come to yet
  extracted,         \* import: the entry paths tar.x has written
  skipped,           \* import: the entry paths the filter has dropped
  imports,           \* POST /setup/import handlers, by position
  exports,           \* GET /setup/export responses being streamed
  xobs,              \* observation: the answer an import gave in the last turn
  upload,            \* one import's request body and what became of it
  cmds,              \* the runCmd calls: subprocess, timers, promise
  stopSent,          \* observation: the workers a gateway.stop has sent SIGTERM
  stopLast,          \* observation: gateway.stop was the operator's last word
  reply,             \* the answer of an endpoint that ran the worker CLI
  wrapper,           \* the wrapper process: its server, its worker, its shutdown
  backup,            \* an export's entries and what an import of them left under /data
  rewrite,           \* the last proxied request's URL and the URL handed to the proxy
  gate,              \* the last credential tried at the two gates and what each answered
  devices            \* the last output of 'devices list' and the request ids taken from it

\* The supervisor's state, and the state outside the supervisor.
supVars == << configured, gatewayProc, gatewayStarting, _gatewayReady, _intentionalKill,
              _restartAttempts, _restartTimer, timers, procs,
              killWait, awaiting, stopping, bgProbe, batch, counting, crashes, obs >>
proxyVars == << clients >>
termVars == << TERMINAL_FULL_ACCESS, session, wsOpen, inputBuf, activePty, term, ptys,
               suspended, tobs >>
tarVars == << archive, extracted, skipped >>
xferVars == << imports, exports, xobs >>
bodyVars == << upload >>
cmdVars == << cmds >>
stopVars == << stopSent, stopLast >>
replyVars == << reply >>
wrapperVars == << wrapper >>
backupVars == << backup >>
rewriteVars == << rewrite >>
gateVars == << gate >>
devicesVars == << devices >>
auxVars == << proxyVars, termVars, tarVars, xferVars, bodyVars, cmdVars, stopVars, replyVars, wrapperVars, backupVars, rewriteVars, gateVars, devicesVars >>
exceptProxy == << supVars, termVars, tarVars, xferVars, bodyVars, cmdVars, stopVars, replyVars, wrapperVars, backupVars, rewriteVars, gateVars, devicesVars >>
exceptTerm == << supVars, proxyVars, tarVars, xferVars, bodyVars, cmdVars, stopVars, replyVars, wrapperVars, backupVars, rewriteVars, gateVars, devicesVars >>
exceptTar == << supVars, proxyVars, termVars, xferVars, bodyVars, cmdVars, stopVars, replyVars, wrapperVars, backupVars, rewriteVars, gateVars, devicesVars >>
exceptXfer == << proxyVars, termVars, tarVars, bodyVars, cmdVars, stopVars, replyVars, wrapperVars, backupVars, rewriteVars, gateVars, devicesVars >>
exceptBody == << supVars, proxyVars, termVars, tarVars, xferVars, cmdVars, stopVars, replyVars, wrapperVars, backupVars, rewriteVars, gateVars, devicesVars >>
exceptCmd == << supVars, proxyVars, termVars, tarVars, xferVars, bodyVars, stopVars, replyVars, wrapperVars, backupVars, rewriteVars, gateVars, devicesVars >>
exceptStop == << proxyVars, termVars, tarVars, xferVars, bodyVars, cmdVars, replyVars, wrapperVars, backupVars, rewriteVars, gateVars, devicesVars >>
exceptReply == << supVars, proxyVars, termVars, tarVars, xferVars, bodyVars, cmdVars, stopVars, wrapperVars, backupVars, rewriteVars, gateVars, devicesVars >>
exceptWrapper == << supVars, proxyVars, termVars, tarVars, xferVars, bodyVars, cmdVars, stopVars, replyVars, backupVars, rewriteVars, gateVars, devicesVars >>
exceptTarBackup == << supVars, proxyVars, termVars, xferVars, bodyVars, cmdVars, stopVars, replyVars, wrapperVars, rewriteVars, gateVars, devicesVars >>
exceptBackup == << supVars, proxyVars, termVars, tarVars, xferVars, bodyVars, cmdVars, stopVars, replyVars, wrapperVars, rewriteVars, gateVars, devicesVars >>
exceptRewrite == << supVars, proxyVars, termVars, tarVars, xferVars, bodyVars, cmdVars, stopVars, replyVars, wrapperVars, backupVars, gateVars, devicesVars >>
exceptGate == << supVars, proxyVars, termVars, tarVars, xferVars, bodyVars, cmdVars, stopVars, replyVars, wrapperVars, backupVars, rewriteVars, devicesVars >>
exceptDevices == << supVars, proxyVars, termVars, tarVars, xferVars, bodyVars, cmdVars, stopVars, replyVars, wrapperVars, backupVars, rewriteVars, gateVars >>

vars == << configured, gatewayProc, gatewayStarting, _gatewayReady, _intentionalKill,
           _restartAttempts, _restartTimer, timers, procs,
           killWait, awaiting, stopping, bgProbe, batch, counting, crashes, obs,
           clients, TERMINAL_FULL_ACCESS, session, wsOpen, inputBuf, activePty, term,
           ptys, suspended, tobs, archive, extracted, skipped, imports, exports,
           xobs, upload, cmds, stopSent, stopLast, reply, wrapper, backup, rewrite, gate, devices >>

\* A client of the proxy: an http.ServerResponse handed to proxy.web or a
\* net.Socket handed to proxy.ws. status is the status line written to an
\* HTTP response (0: headers not sent); errored: the proxy reported a
\* backend error for it.
Clients == 1..MaxClients
NoClient == [kind |-> "none", state |-> "open", status |-> 0, errored |-> FALSE]

\* The pseudo-terminal processes. file and args are what pty.spawn was given;
\* line is the command line it was spawned for; st is "killed" from kill()
\* to the exit of the process.
Ptys == 1..MaxPty
FreePty == [st |-> "free", file |-> "", args |-> << >>, line |-> << >>]

\* Observation of one turn of the terminal:
\*   lines     the completed lines the line editor handled, each with what it
\*             did with it, whether activePty was null when it was completed,
\*             and the pseudo-terminals spawned for it
\*   wrote     the write to a pseudo-terminal: its handle and the bytes
\*   edited    the line editor looked at a character while a pseudo-terminal
\*             of the session was alive
\*   exited    the pseudo-terminal whose exit callback ran
\*   prompt    the prompt was written
NoWrite == [to |-> 0, bytes |-> << >>]
NoTobs == [lines |-> << >>, wrote |-> NoWrite, edited |-> FALSE, exited |-> 0,
           prompt |-> FALSE]
NotSuspended == [on |-> FALSE, rest |-> << >>]

\* Where an import handler waits: in its sleep(750), for the request body,
\* for tar.x; the handlers that have signalled a worker and slept are told
\* from those that found none.
ImportPcs == {"sleep", "body", "bodyStopped", "extract", "extractStopped"}

\* Observation of the turn in which an import answers: the answer, whether
\* the handler had stopped a worker, whether it called restartGateway, and
\* isConfigured() at the answer.
NoXobs == [answer |-> "none", stopped |-> FALSE, restarted |-> FALSE,
           configured |-> FALSE]

\* The request body of an import: the lengths of the chunks still to come,
\* readBodyBuffer's total and the bytes in its chunks array, how its promise
\* settled, whether req.destroy() was called, whether tar.x ran, the answer
\* of the handler and whether the socket was still there to carry it.
IMPORT_MAX_BYTES == 250 * 1024 * 1024
NoUpload == [pending |-> << >>, total |-> 0, kept |-> 0, state |-> "reading",
             destroyed |-> FALSE, extracted |-> FALSE, answer |-> "none",
             delivered |-> FALSE]

\* A runCmd call. proc: the subprocess, "none" before the call, "closed"
\* after its 'close' event; timer and killTimer: "none", "pending", "cleared"
\* or "fired"; result: the value the promise resolved with, -1 while it is
\* pending; ev: the event handled last; code: the code of the 'close' event,
\* -2 for null, -1 before it; sigterm, sigkill: the signals sent.
Cmds == 1..MaxCmds
NoCmd == [proc |-> "none", timer |-> "none", killTimer |-> "none", result |-> -1,
          ev |-> "none", code |-> -1, sigterm |-> FALSE, sigkill |-> FALSE]

\* The wrapper process after boot. phase: "running", "terminating" once the
\* SIGTERM handler has run, "exited" after process.exit; conns: the open
\* connections of its server; worker: "none", "alive" or "exited"; handle:
\* gatewayProc is not null; signalled: the handler sent the worker SIGTERM;
\* workerAtExit: what the worker was when the wrapper exited.
Running == [phase |-> "running", conns |-> 0, worker |-> "none", handle |-> FALSE,
            signalled |-> FALSE, workerAtExit |-> "none"]

\* No endpoint has answered yet.
\* No output has been read.
NoExtract == [text |-> << >>, ids |-> << >>]

\* No credential has been tried.
NoGate == [url |-> << >>, host |-> "none", credential |-> << >>, ws |-> "none",
           http |-> 0]

\* No request has been proxied.
NoRewrite == [url |-> << >>, forwarded |-> << >>]

\* No export has run and no import has finished.
NoBackup == [entries |-> {}, done |-> FALSE, restored |-> {}]

NoReply == [endpoint |-> "none", code |-> 0, text |-> << >>]

\* The state outside the supervisor at boot; the environment is read apart.
AuxBoot ==
  /\ clients = [i \in Clients |-> NoClient]
  /\ session = "none"
  /\ wsOpen = FALSE
  /\ inputBuf = << >>
  /\ activePty = 0
  /\ term = 0
  /\ ptys = [p \in Ptys |-> FreePty]
  /\ suspended = NotSuspended
  /\ tobs = NoTobs
  /\ extracted = {}
  /\ skipped = {}
  /\ imports = [pc \in ImportPcs |-> 0]
  /\ exports = 0
  /\ xobs = NoXobs
  /\ cmds = [i \in Cmds |-> NoCmd]
  /\ stopSent = {}
  /\ stopLast = FALSE
  /\ reply = NoReply
  /\ wrapper = Running
  /\ backup = NoBackup
  /\ rewrite = NoRewrite
  /\ gate = NoGate
  /\ devices = NoExtract

\* The program state as one record; ovf marks a step that would exceed a bound.
S ==
  [ configured |-> configured, gatewayProc |-> gatewayProc,
    gatewayStarting |-> gatewayStarting, _gatewayReady |-> _gatewayReady,
    _intentionalKill |-> _intentionalKill, _restartAttempts |-> _restartAttempts,
    _restartTimer |-> _restartTimer, timers |-> timers, procs |-> procs,
    killWait |-> killWait,
    awaiting |-> awaiting, stopping |-> stopping, bgProbe |-> bgProbe,
    batch |-> batch, counting |-> counting, crashes |-> crashes,
    obs |-> NoObs, ovf |-> FALSE, timedOut |-> 0 ]

CommitSup(t) ==
  /\ ~t.ovf
  /\ configured' = t.configured
  /\ gatewayProc' = t.gatewayProc
  /\ gatewayStarting' = t.gatewayStarting
  /\ _gatewayReady' = t._gatewayReady
  /\ _intentionalKill' = t._intentionalKill
  /\ _restartAttempts' = t._restartAttempts
  /\ _restartTimer' = t._restartTimer
  /\ timers' = t.timers
  /\ procs' = t.procs
  /\ killWait' = t.killWait
  /\ awaiting' = t.awaiting
  /\ stopping' = t.stopping
  /\ bgProbe' = t.bgProbe
  /\ batch' = t.batch
  /\ counting' = t.counting
  /\ crashes' = t.crashes
  /\ obs' = t.obs

Commit(t) ==
  /\ CommitSup(t)
  /\ xobs' = NoXobs
  /\ UNCHANGED << proxyVars, termVars, tarVars, imports, exports, bodyVars, cmdVars,
                  stopVars, replyVars, wrapperVars, backupVars, rewriteVars, gateVars, devicesVars >>

\* ----------------------------------------------------------------- helpers
Min(a, b) == IF a <= b THEN a ELSE b

RECURSIVE Pow2(_)
Pow2(n) == IF n = 0 THEN 1 ELSE 2 * Pow2(n - 1)

RECURSIVE SumOver(_, _)
SumOver(f, D) ==
  IF D = {} THEN 0
  ELSE LET x == CHOOSE y \in D : TRUE IN f[x] + SumOver(f, D \ {x})

AliveSet(s) == {p \in Procs : s.procs[p].st = "alive"}

\* A process of ours accepts TCP connections on the internal port.
Listening(s) == \E p \in Procs : s.procs[p].st = "alive" /\ s.procs[p].listening

\* A handle slot is reusable once its process is gone and nobody waits on it.
FreeSlots(s) == {p \in Procs : s.procs[p].st = "free" /\ s.killWait[p] = 0}

\* The live workers a restartGateway call is waiting to see exit (timedOut:
\* the one whose wait has just been given up in this turn).
RestartTargets(s) == {p \in AliveSet(s) : s.killWait[p] > 0 \/ s.timedOut = p}

\* The supervisor calls suspended at an await.
InFlight(s) ==
  SumOver(s.awaiting, AwaitKinds) + SumOver(s.killWait, Procs) + SumOver(s.stopping, StopKinds)

Overflow(s) == [s EXCEPT !.ovf = TRUE]

\* The nondeterminism of one turn: what the environment decides in it.
\*   sleep    startGateway's stale-process / lock cleanup awaits (sleep(500))
\*   timeout  waitForGatewayReady's deadline has passed at this loop test
\*   limited  runDoctorBestEffort ran less than five minutes ago
C0 == [sleep |-> FALSE, timeout |-> FALSE, limited |-> FALSE]

\* The choices of a turn in which n restartGateway calls resume: an attempt
\* can start in it only if none is in flight, and can fail in it only if a
\* second call resumes after the one that started it.
Choices(s, n) ==
  { [C0 EXCEPT !.sleep = a, !.limited = l] :
      a \in IF s.configured /\ s.gatewayStarting = "null" THEN BOOLEAN ELSE {FALSE},
      l \in IF n >= 2 THEN BOOLEAN ELSE {FALSE} }

\* Observation: crashes counts the unexpected exits since the last Ready
\* transition or operator restart, up to RESTART_MAX_ATTEMPTS.
countCrash(s) ==
  IF s.counting THEN [s EXCEPT !.crashes = Min(@ + 1, RESTART_MAX_ATTEMPTS)] ELSE s

\* "_gatewayReady = true" (333, 340).
\* "_gatewayReady = true" left out.
setReadyNot(s) == s

setReady(s) ==
  [s EXCEPT !._gatewayReady = TRUE, !.crashes = IF s._gatewayReady THEN @ ELSE 0]

\* --------------------------------------------------------------- supervisor
\* scheduleGatewayRestart with the delay left uncapped.
scheduleGatewayRestartUncapped(s) ==
  IF s._restartTimer THEN s
  ELSE IF s._restartAttempts >= RESTART_MAX_ATTEMPTS THEN s
  ELSE [s EXCEPT
          !.obs.delay = RESTART_BASE_DELAY_MS * Pow2(s._restartAttempts),
          !._restartTimer = TRUE,
          !.timers = @ + 1,
          !._restartAttempts = @ + 1]

\* scheduleGatewayRestart giving up one attempt late.
scheduleGatewayRestartLateGiveUp(s) ==
  IF s._restartTimer THEN s
  ELSE IF s._restartAttempts > RESTART_MAX_ATTEMPTS THEN s
  ELSE [s EXCEPT
          !.obs.delay = Min(RESTART_BASE_DELAY_MS * Pow2(s._restartAttempts),
                            RESTART_MAX_DELAY_MS),
          !._restartTimer = TRUE,
          !.timers = @ + 1,
          !._restartAttempts = @ + 1]

\* scheduleGatewayRestart without its test for a pending timer.
scheduleGatewayRestartNoPendingTest(s) ==
  IF s._restartAttempts >= RESTART_MAX_ATTEMPTS THEN s
  ELSE [s EXCEPT
          !.obs.delay = Min(RESTART_BASE_DELAY_MS * Pow2(s._restartAttempts),
                            RESTART_MAX_DELAY_MS),
          !._restartTimer = TRUE,
          !.timers = @ + 1,
          !._restartAttempts = @ + 1]

\* scheduleGatewayRestart (server.js 139-160): the part that runs at the call;
\* the timer's callback is the action RestartTimerFire.
scheduleGatewayRestart(s) ==
  IF s._restartTimer THEN s
  ELSE IF s._restartAttempts >= RESTART_MAX_ATTEMPTS THEN s
  ELSE [s EXCEPT
          !.obs.delay = Min(RESTART_BASE_DELAY_MS * Pow2(s._restartAttempts),
                            RESTART_MAX_DELAY_MS),
          !._restartTimer = TRUE,
          !.timers = @ + 1,
          !._restartAttempts = @ + 1]

\* gatewayProc.on("exit") (278-292); the handler does not look at which
\* process emitted the event.
exitHandler(s, ev) ==
  LET s1 == [s EXCEPT !.gatewayProc = 0, !._gatewayReady = FALSE]
  IN IF s1.configured /\ ev.signal # "SIGTERM" /\ ev.code # 0 /\ ~s1._intentionalKill
     THEN scheduleGatewayRestart(countCrash(s1))
     ELSE s1

\* probeGateway (423-441) and what follows it in waitForGatewayReady's loop
\* (178-182): a TCP connect to the internal port, decided when it is made.
\* Its success reaches the loop in a later turn; after a failure the loop
\* sleeps 300 ms and tests again.
probeGateway(s) == IF Listening(s) THEN "probeOk" ELSE "sleep"

\* childProcess.spawn and "gatewayProc = ..." (261-268).  The spawn is taken
\* to succeed.
spawnWorker(s, c) ==
  IF FreeSlots(s) = {} THEN Overflow(s)
  ELSE LET p == CHOOSE q \in FreeSlots(s) : \A r \in FreeSlots(s) : q <= r
       IN [s EXCEPT
             !.procs[p] = [st |-> "alive", listening |-> FALSE],
             !.gatewayProc = p,
             !.obs.spawnOver = (RestartTargets(s) # {}),
             !.batch = IF @.open THEN [@ EXCEPT !.spawns = @ + 1] ELSE @]

\* startGateway (188-293) up to its first await, as called by a new attempt,
\* which ensureGatewayRunning starts only when configured (192 never throws).
\* The fuser / lock-file cleanup (195-243) is best effort: it may SIGKILL stale
\* processes and sleep, it never waits for an exit.
startGateway(s, c) ==
  IF s.gatewayProc # 0 THEN [s EXCEPT !.gatewayStarting = "started"]
  ELSE IF c.sleep THEN [s EXCEPT !.gatewayStarting = "cleanupSleep"]
  ELSE [spawnWorker(s, c) EXCEPT !.gatewayStarting = "started"]

\* The attempt settles: ".finally(() => gatewayStarting = null)" (348-350), then
\* every caller suspended at "await gatewayStarting" (352) resumes: the timer
\* callback resets the backoff on success (153), the fallback handler forwards
\* or answers 503 (1483-1513), the upgrade handler hands the socket to
\* proxy.ws or destroys it (1762-1768).
settle(s, out) ==
  LET n == SumOver(s.awaiting, AwaitKinds)
  IN [s EXCEPT
        !.gatewayStarting = "null",
        !._restartAttempts = IF out = "ok" /\ s.awaiting["timer"] > 0 THEN 0 ELSE @,
        !.obs.proxy = IF s.awaiting["proxy"] = 0 THEN @
                      ELSE IF out = "err" THEN "503"
                      ELSE IF s._gatewayReady THEN "fwdReady" ELSE "fwdNotReady",
        !.obs.ws = IF s.awaiting["ws"] = 0 THEN @
                   ELSE IF out = "err" THEN "destroyed"
                   ELSE IF s._gatewayReady THEN "fwdReady" ELSE "fwdNotReady",
        !.obs.settled = s.batch.open,
        !.obs.spawns = s.batch.spawns,
        !.obs.callers = n,
        !.obs.outcomes = {out : k \in {k \in AwaitKinds : s.awaiting[k] > 0}},
        !.batch = NoBatch,
        !.awaiting = [k \in AwaitKinds |-> 0]]

\* The catch block of the attempt (341-347) with runDoctorBestEffort (295-308):
\* rate-limited it returns at once and the attempt rejects in the same turn,
\* otherwise the attempt awaits the doctor subprocess.
catchStart(s, c) ==
  IF c.limited THEN settle(s, "err")
  ELSE [s EXCEPT !.gatewayStarting = "doctor"]

\* The detached background probe (327-336) up to its first await: it enters
\* waitForGatewayReady, passes the liveness test and makes its first connect.
startBackgroundProbe(s) ==
  IF SumOver(s.bgProbe, BgPcs) >= MaxBg THEN Overflow(s)
  ELSE [s EXCEPT !.bgProbe[probeGateway(s)] = @ + 1]

\* waitForGatewayReady returned false (320-339).
notReady(s, c) ==
  catchStart(IF s.gatewayProc # 0 THEN startBackgroundProbe(s) ELSE s, c)

\* The loop test without "if (!gatewayProc) return false".
waitLoopTopNoLivenessTest(s, c) ==
  IF c.timeout THEN notReady(s, c)
  ELSE [s EXCEPT !.gatewayStarting = probeGateway(s)]

\* One test of waitForGatewayReady's loop by the attempt (170-178).
waitLoopTop(s, c) ==
  IF c.timeout \/ s.gatewayProc = 0 THEN notReady(s, c)
  ELSE [s EXCEPT !.gatewayStarting = probeGateway(s)]

\* A call of ensureGatewayRunning that returns without awaiting (311-312), and
\* what its caller does with the value.
returned(s, kind, res) ==
  [s EXCEPT
     !._restartAttempts = IF kind = "timer" THEN 0 ELSE @,
     !.obs.proxy = IF kind # "proxy" THEN @
                   ELSE IF s._gatewayReady THEN "fwdReady" ELSE "fwdNotReady",
     !.obs.ws = IF kind # "ws" THEN @
                ELSE IF s._gatewayReady THEN "fwdReady" ELSE "fwdNotReady"]

\* Observation: the spawns of an attempt are counted when it starts with no
\* worker process in existence.
openBatch(s) ==
  [s EXCEPT !.batch = IF s.gatewayProc = 0 /\ AliveSet(s) = {}
                      THEN [open |-> TRUE, spawns |-> 0]
                      ELSE NoBatch]

\* ensureGatewayRunning starting the worker whenever it holds no handle,
\* whether or not an attempt is in flight.
ensureGatewayRunningNoJoin(s, kind, c) ==
  IF ~s.configured THEN returned(s, kind, "notconf")
  ELSE IF s.gatewayProc # 0 /\ s._gatewayReady THEN returned(s, kind, "ok")
  ELSE LET s1 == IF s.gatewayStarting = "null" THEN startGateway(openBatch(s), c)
                 ELSE IF s.gatewayProc = 0 THEN startGateway(s, c)
                 ELSE s
       IN IF InFlight(s1) >= MaxCalls THEN Overflow(s1)
          ELSE [s1 EXCEPT !.awaiting[kind] = @ + 1]

\* ensureGatewayRunning (310-354) up to "await gatewayStarting".
ensureGatewayRunning(s, kind, c) ==
  IF ~s.configured THEN returned(s, kind, "notconf")
  ELSE IF s.gatewayProc # 0 /\ s._gatewayReady THEN returned(s, kind, "ok")
  ELSE LET s1 == IF s.gatewayStarting = "null" THEN startGateway(openBatch(s), c) ELSE s
       IN IF InFlight(s1) >= MaxCalls THEN Overflow(s1)
          ELSE [s1 EXCEPT !.awaiting[kind] = @ + 1]

\* restartGateway (356-392) up to its first await.  clearTimeout cancels the
\* timer that _restartTimer holds.  The kill signals (368, 378) change nothing
\* in the wrapper: the process answers with an 'exit' event when it will.
restartGateway(s, c) ==
  LET s1 == [s EXCEPT !._restartTimer = FALSE,
                      !.timers = IF s._restartTimer THEN @ - 1 ELSE @,
                      !._restartAttempts = 0,
                      !.crashes = 0]
      p == s1.gatewayProc
  IN IF p # 0
     THEN IF InFlight(s1) >= MaxCalls THEN Overflow(s1)
          ELSE [s1 EXCEPT !._intentionalKill = TRUE, !.killWait[p] = @ + 1]
     ELSE ensureGatewayRunning(s1, "call", c)

\* restartGateway after its kill-wait resolved (388-391).
restartCont(s, c) ==
  ensureGatewayRunning([s EXCEPT !.gatewayProc = 0, !._intentionalKill = FALSE], "call", c)

\* The continuations of n restartGateway calls, in the order they were queued.
RECURSIVE resumeRestarts(_, _, _)
resumeRestarts(s, n, c) ==
  IF n = 0 THEN s ELSE resumeRestarts(restartCont(s, c), n - 1, c)

\* The end of a turn: the attempt's continuation of "await startGateway()"
\* (318-319) runs after everything queued before it, and makes the first
\* loop test of waitForGatewayReady, whose deadline cannot have passed.
Drain(s, c) ==
  IF s.gatewayStarting = "started" THEN waitLoopTop(s, [c EXCEPT !.timeout = FALSE])
  ELSE s

\* ----------------------------------------------------------- stop handlers
\* What a stop-type handler does once the worker handle is cleared: console
\* and terminal gateway.stop answer (1027-1034, 1650-1656), import goes on to
\* read the upload (1384), reset and wipe delete the config file (1241-1244,
\* 1268-1270).
stopCont(s, kind) ==
  IF kind = "reset" THEN [s EXCEPT !.configured = FALSE] ELSE s

\* "if (gatewayProc) { kill SIGTERM; await sleep(750); gatewayProc = null }"
\* up to the sleep (1028-1030, 1232-1234, 1261-1263, 1378-1380).  The signal
\* changes nothing in the wrapper.
stopWorker(s, kind) ==
  IF InFlight(s) >= MaxCalls THEN Overflow(s)
  ELSE IF s.gatewayProc # 0 THEN [s EXCEPT !.stopping[kind] = @ + 1]
  ELSE stopCont(s, kind)

\* ... and after it (1031, 1235, 1264, 1381).
stopAfterSleep(s, kind) ==
  stopCont([s EXCEPT !.stopping[kind] = @ - 1, !.gatewayProc = 0], kind)

\* The fallback handler (1471-1514) up to its await or its answer.
proxyHandler(s, setupPath, c) ==
  IF ~s.configured /\ ~setupPath THEN [s EXCEPT !.obs.proxy = "redirect"]
  ELSE IF s.configured /\ ~s._gatewayReady THEN ensureGatewayRunning(s, "proxy", c)
  ELSE [s EXCEPT !.obs.proxy = IF s._gatewayReady THEN "fwdReady" ELSE "fwdNotReady"]

\* server.on("upgrade") for a path other than the terminal's (1755-1768), up
\* to its await or its answer.
upgradeHandler(s, c) ==
  LET s1 == [s EXCEPT !.obs.wsArrived = TRUE]
  IN IF ~s1.configured THEN [s1 EXCEPT !.obs.ws = "destroyed"]
     ELSE IF ~s1._gatewayReady THEN ensureGatewayRunning(s1, "ws", c)
     ELSE [s1 EXCEPT !.obs.ws = "fwdReady"]

\* ------------------------------------------------------------------ actions
\* The state after the module is loaded (121-137); the config file may exist.
Boot ==
  /\ gatewayProc = 0
  /\ gatewayStarting = "null"
  /\ _gatewayReady = FALSE
  /\ _intentionalKill = FALSE
  /\ _restartAttempts = 0
  /\ _restartTimer = FALSE
  /\ timers = 0
  /\ procs = [p \in Procs |-> FreeProc]
  /\ killWait = [p \in Procs |-> 0]
  /\ awaiting = [k \in AwaitKinds |-> 0]
  /\ stopping = [k \in StopKinds |-> 0]
  /\ bgProbe = [k \in BgPcs |-> 0]
  /\ batch = NoBatch
  /\ crashes = 0
  /\ obs = NoObs
  /\ AuxBoot

Init ==
  /\ Boot
  /\ configured \in BOOLEAN
  /\ counting = FALSE
  /\ TERMINAL_FULL_ACCESS = FALSE
  /\ archive = << >>
  /\ upload = NoUpload

\* ensureGatewayRunning called at boot (1536-1544), by gateway.start (1035-1038,
\* 1657-1660) or by onboarding of a configured instance (751-758).
EnsureCall ==
  \E c \in Choices(S, 0) : Commit(Drain(ensureGatewayRunning(S, "call", c), c))

\* An HTTP request reaches the fallback handler (1471).
ProxyRequest ==
  \E setupPath \in BOOLEAN, c \in Choices(S, 0) :
    Commit(Drain(proxyHandler(S, setupPath, c), c))

\* A WebSocket upgrade for a path other than the terminal's arrives (1739).
UpgradeRequest ==
  \E c \in Choices(S, 0) : Commit(Drain(upgradeHandler(S, c), c))

\* A restart timer fires (148-159).
RestartTimerFire ==
  /\ timers > 0
  /\ \E c \in Choices(S, 0) :
       Commit(Drain(ensureGatewayRunning(
                [S EXCEPT !.timers = @ - 1, !._restartTimer = FALSE], "timer", c), c))

\* restartGateway is called: console or terminal gateway.restart, config or
\* env save, onboarding, the tail of an import (907, 916, 1024, 1145, 1185,
\* 1439, 1648).
Restart ==
  \E c \in Choices(S, 0) : Commit(Drain(restartGateway(S, c), c))

\* The kill-wait of a restartGateway call is given up: its 5 s timer has fired
\* (SIGKILL) and then its 3 s timer, and no exit event came; the call goes on
\* (376-390).
KillWaitTimeout ==
  \E p \in Procs :
    /\ killWait[p] > 0
    /\ \E c \in Choices(S, 1) :
         Commit(Drain(restartCont([S EXCEPT !.killWait[p] = @ - 1, !.timedOut = p], c), c))

\* gateway.stop, reset, wipe or import is requested.
Stop ==
  \E kind \in StopKinds : Commit(stopWorker(S, kind))

\* The sleep(750) of a stop-type handler ends.
StopSleepDone ==
  \E kind \in StopKinds :
    /\ stopping[kind] > 0
    /\ Commit(stopAfterSleep(S, kind))

\* Onboarding, or an import's extraction, writes the config file (762-790,
\* 1393-1404).
Configure ==
  /\ ~configured
  /\ Commit([S EXCEPT !.configured = TRUE])

\* A worker binds the internal port.
ProcListen ==
  \E p \in Procs :
    /\ procs[p].st = "alive"
    /\ ~procs[p].listening
    /\ Commit([S EXCEPT !.procs[p].listening = TRUE])

\* A worker's 'exit' event: the exit handler, then the restartGateway calls
\* waiting on that process, in order (278-292, 374-381).
exitTurn(p, ev, c) ==
  LET s0 == [S EXCEPT !.procs[p] = FreeProc, !.killWait[p] = 0,
                      !.obs.exit = [code |-> ev.code, signal |-> ev.signal,
                                    killed |-> killWait[p] > 0]]
  IN Drain(resumeRestarts(exitHandler(s0, ev), killWait[p], c), c)

ProcExit ==
  \E p \in Procs, ev \in ExitEvents :
    /\ procs[p].st = "alive"
    /\ \E c \in Choices(S, killWait[p]) : Commit(exitTurn(p, ev, c))

\* startGateway's cleanup sleep ends: the worker is spawned (245-268).
AttemptCleanupDone ==
  /\ gatewayStarting = "cleanupSleep"
  /\ Commit(Drain([spawnWorker(S, C0) EXCEPT !.gatewayStarting = "started"], C0))

\* The attempt's sleep(300) ends: next loop test (170-182).
AttemptLoopTop ==
  /\ gatewayStarting = "sleep"
  /\ \E timeout \in BOOLEAN, limited \in BOOLEAN :
       Commit(waitLoopTop(S, [C0 EXCEPT !.timeout = timeout, !.limited = limited]))

\* The attempt's successful connect reaches it (178, 340).
AttemptProbeDone ==
  /\ gatewayStarting = "probeOk"
  /\ Commit(settle(setReady(S), "ok"))

\* The doctor subprocess of a failed attempt ends (345-346).
DoctorDone ==
  /\ gatewayStarting = "doctor"
  /\ Commit(settle(S, "err"))

\* A background probe's sleep(300) ends: next loop test (170-178, 328).
BgLoopTop ==
  /\ bgProbe["sleep"] > 0
  /\ \E timeout \in BOOLEAN :
       IF timeout \/ gatewayProc = 0
       THEN Commit([S EXCEPT !.bgProbe["sleep"] = @ - 1])
       ELSE Commit([[S EXCEPT !.bgProbe["sleep"] = @ - 1] EXCEPT
                      !.bgProbe[probeGateway(S)] = @ + 1])

\* A background probe's successful connect reaches it (328-335).
BgProbeDone ==
  /\ bgProbe["probeOk"] > 0
  /\ Commit([setReady(S) EXCEPT !.bgProbe["probeOk"] = @ - 1, !._restartAttempts = 0])

Next ==
  \/ EnsureCall
  \/ ProxyRequest
  \/ RestartTimerFire
  \/ Restart
  \/ KillWaitTimeout
  \/ Stop
  \/ StopSleepDone
  \/ Configure
  \/ ProcListen
  \/ ProcExit
  \/ AttemptCleanupDone
  \/ AttemptLoopTop
  \/ AttemptProbeDone
  \/ DoctorDone
  \/ BgLoopTop
  \/ BgProbeDone

Spec == Init /\ [][Next]_vars

\* The supervisor of a configured instance left to itself, with HTTP traffic
\* and no operator action; the unexpected exits are counted.
InitBackoff ==
  /\ Boot
  /\ configured = TRUE
  /\ counting = TRUE
  /\ TERMINAL_FULL_ACCESS = FALSE
  /\ archive = << >>
  /\ upload = NoUpload

NextBackoff ==
  \/ ProxyRequest
  \/ RestartTimerFire
  \/ ProcListen
  \/ ProcExit
  \/ AttemptCleanupDone
  \/ AttemptLoopTop
  \/ AttemptProbeDone
  \/ DoctorDone
  \/ BgLoopTop
  \/ BgProbeDone

SpecBackoff == InitBackoff /\ [][NextBackoff]_vars

\* The supervisor under WebSocket upgrades, stops, resets and onboarding.
NextUpgrade ==
  \/ UpgradeRequest
  \/ RestartTimerFire
  \/ Stop
  \/ StopSleepDone
  \/ Configure
  \/ ProcListen
  \/ ProcExit
  \/ AttemptCleanupDone
  \/ AttemptLoopTop
  \/ AttemptProbeDone
  \/ DoctorDone
  \/ BgLoopTop
  \/ BgProbeDone

SpecUpgrade == Init /\ [][NextUpgrade]_vars

\* ------------------------------------------------------- proxy error handler

\* An http.ServerResponse has writeHead and destroy, a net.Socket has destroy
\* and no writeHead; headersSent is a property of the response alone.
hasWriteHead(c) == c.kind = "http"
hasDestroy(c) == c.kind \in {"http", "ws"}
headersSent(c) == c.kind = "http" /\ c.status # 0

\* The handler with its first branch only.
proxyOnErrorNoDestroy(c) ==
  IF c.kind # "none" /\ hasWriteHead(c) /\ ~headersSent(c)
  THEN [c EXCEPT !.status = 502, !.state = "ended", !.errored = TRUE]
  ELSE [c EXCEPT !.errored = TRUE]

\* proxy.on("error", (err, _req, resOrSocket) => ...) (1456-1469).
proxyOnError(c) ==
  IF c.kind # "none" /\ hasWriteHead(c) /\ ~headersSent(c)
  THEN [c EXCEPT !.status = 502, !.state = "ended", !.errored = TRUE]
  ELSE IF c.kind # "none" /\ hasDestroy(c)
  THEN [c EXCEPT !.state = "destroyed", !.errored = TRUE]
  ELSE [c EXCEPT !.errored = TRUE]

\* The fallback handler hands a response to proxy.web (1513).
ProxyWeb ==
  \E i \in Clients :
    /\ clients[i].kind = "none"
    /\ clients' = [clients EXCEPT ![i] = [NoClient EXCEPT !.kind = "http"]]
    /\ UNCHANGED exceptProxy

\* The upgrade handler hands a socket to proxy.ws (1768).
ProxyWs ==
  \E i \in Clients :
    /\ clients[i].kind = "none"
    /\ clients' = [clients EXCEPT ![i] = [NoClient EXCEPT !.kind = "ws"]]
    /\ UNCHANGED exceptProxy

\* The backend answers an HTTP request: the proxy writes the status line and
\* the headers to the response.
BackendHeaders ==
  \E i \in Clients :
    /\ clients[i].kind = "http" /\ clients[i].state = "open" /\ clients[i].status = 0
    /\ clients' = [clients EXCEPT ![i].status = 200]
    /\ UNCHANGED exceptProxy

\* The backend finishes its answer, or closes the WebSocket.
BackendEnd ==
  \E i \in Clients :
    /\ clients[i].state = "open"
    /\ \/ clients[i].kind = "http" /\ clients[i].status # 0
       \/ clients[i].kind = "ws"
    /\ clients' = [clients EXCEPT ![i].state = "ended"]
    /\ UNCHANGED exceptProxy

\* The proxy reports a backend error for a client it still serves (1456).
BackendError ==
  \E i \in Clients :
    /\ clients[i].kind # "none" /\ clients[i].state = "open"
    /\ clients' = [clients EXCEPT ![i] = proxyOnError(clients[i])]
    /\ UNCHANGED exceptProxy

\* A released client goes away.
ClientGone ==
  \E i \in Clients :
    /\ clients[i].kind # "none" /\ clients[i].state # "open"
    /\ clients' = [clients EXCEPT ![i] = NoClient]
    /\ UNCHANGED exceptProxy

NextProxyError ==
  \/ ProxyWeb
  \/ ProxyWs
  \/ BackendHeaders
  \/ BackendEnd
  \/ BackendError
  \/ ClientGone

SpecProxyError == Init /\ [][NextProxyError]_vars

\* ------------------------------------------------------------ the terminal

\* Characters are one-character strings, a string of the program is a tuple
\* of them. The control characters the line editor tests for have names.
CR == "CR"
LF == "LF"
DEL == "DEL"    \* \x7f
BS == "BS"      \* \b
ETX == "ETX"    \* \x03, Ctrl-C
NAK == "NAK"    \* \x15, Ctrl-U
TAB == "TAB"    \* \t, a character below " "
ControlChars == {CR, LF, DEL, BS, ETX, NAK, TAB}

OPENCLAW_ENTRY == "/openclaw/dist/entry.js"
OPENCLAW_NODE == "node"
SHELL == "/bin/bash"

\* clawArgs(args) (89-91).
clawArgs(args) == << OPENCLAW_ENTRY >> \o args

\* RESTRICTED_SHELL_UNSAFE.test(line) (1564).
UnsafeChars == {"&", "|", ";", "`", "$", "(", ")", "{", "}", "!", "<", ">", "\\",
                "#", LF, CR, "\"", "'"}
RESTRICTED_SHELL_UNSAFE(line) == \E i \in 1..Len(line) : line[i] \in UnsafeChars

\* The words the allowlist knows (1630, 1631).
W_openclaw == << "o", "p", "e", "n", "c", "l", "a", "w" >>
W_restart == << "g", "a", "t", "e", "w", "a", "y", ".", "r", "e", "s", "t", "a", "r", "t" >>
W_stop == << "g", "a", "t", "e", "w", "a", "y", ".", "s", "t", "o", "p" >>
W_start == << "g", "a", "t", "e", "w", "a", "y", ".", "s", "t", "a", "r", "t" >>
GatewayCmds == {W_restart, W_stop, W_start}

\* String.prototype.toLowerCase, on the letters the messages and the request
\* URLs use.
lower(ch) ==
  CASE ch = "O" -> "o"
    [] ch = "G" -> "g"
    [] ch = "J" -> "j"
    [] ch = "S" -> "s"
    [] ch = "C" -> "c"
    [] OTHER -> ch
toLowerCase(w) == [i \in 1..Len(w) |-> lower(w[i])]

\* String.prototype.trim: of the white space only " " can be in the buffer,
\* the line editor drops every character below it.
RECURSIVE trimStart(_)
trimStart(str) ==
  IF str # << >> /\ Head(str) = " " THEN trimStart(Tail(str)) ELSE str

RECURSIVE trimEnd(_)
trimEnd(str) ==
  IF str # << >> /\ str[Len(str)] = " " THEN trimEnd(SubSeq(str, 1, Len(str) - 1))
  ELSE str

trim(str) == trimEnd(trimStart(str))

\* line.split(/\s+/) of a trimmed line that is not empty (1627).
firstSpace(str) ==
  CHOOSE i \in 1..(Len(str) + 1) :
    /\ (i = Len(str) + 1 \/ str[i] = " ")
    /\ \A j \in 1..(i - 1) : str[j] # " "

RECURSIVE split(_)
split(str) ==
  LET i == firstSpace(str)
  IN IF i = Len(str) + 1 THEN << str >>
     ELSE << SubSeq(str, 1, i - 1) >> \o split(trimStart(SubSeq(str, i, Len(str))))

\* The terminal session as one record; ovf marks a step that would exceed a
\* bound.
T ==
  [ session |-> session, wsOpen |-> wsOpen, inputBuf |-> inputBuf,
    activePty |-> activePty, term |-> term, ptys |-> ptys, suspended |-> suspended,
    tobs |-> NoTobs, ovf |-> FALSE ]

CommitT(t) ==
  /\ ~t.ovf
  /\ session' = t.session
  /\ wsOpen' = t.wsOpen
  /\ inputBuf' = t.inputBuf
  /\ activePty' = t.activePty
  /\ term' = t.term
  /\ ptys' = t.ptys
  /\ suspended' = t.suspended
  /\ tobs' = t.tobs
  /\ UNCHANGED << TERMINAL_FULL_ACCESS, exceptTerm >>

AlivePtys(t) == {p \in Ptys : t.ptys[p].st # "free"}
FreePtys(t) == {p \in Ptys : t.ptys[p].st = "free"}

\* pty.spawn(file, args, ...) (1580, 1698): a new process; line is the command
\* line it was spawned for.
ptySpawn(t, file, args, line) ==
  IF FreePtys(t) = {} THEN [t EXCEPT !.ovf = TRUE]
  ELSE LET p == CHOOSE q \in FreePtys(t) : \A r \in FreePtys(t) : q <= r
       IN [t EXCEPT !.ptys[p] = [st |-> "alive", file |-> file, args |-> args,
                                 line |-> line]]

\* The handle pty.spawn has just returned.
lastSpawned(t0, t) == CHOOSE p \in Ptys : t0.ptys[p].st = "free" /\ t.ptys[p].st # "free"

\* spawnRestrictedCmd through a shell.
spawnRestrictedCmdShell(t, cmd, args, line) ==
  LET t1 == ptySpawn(t, SHELL, << "-c" >> \o args, line)
  IN IF t1.ovf THEN t1 ELSE [t1 EXCEPT !.activePty = lastSpawned(t, t1)]

\* spawnRestrictedCmd(cmd, args) (1579-1596).
spawnRestrictedCmd(t, cmd, args, line) ==
  LET t1 == ptySpawn(t, cmd, args, line)
  IN IF t1.ovf THEN t1 ELSE [t1 EXCEPT !.activePty = lastSpawned(t, t1)]

\* The line editor notes a completed line and what it did with it.
logLine(t, line, verdict, spawned) ==
  [t EXCEPT !.tobs.lines = Append(@, [line |-> line, verdict |-> verdict,
                                      idle |-> t.activePty = 0,
                                      spawned |-> spawned])]

\* The same for a line that was given a pseudo-terminal: t0 is the session
\* before the spawn.
logSpawn(t0, t, line) ==
  IF t.ovf THEN t
  ELSE [t EXCEPT !.tobs.lines = Append(@, [line |-> line, verdict |-> "spawn",
                                           idle |-> t0.activePty = 0,
                                           spawned |-> AlivePtys(t) \ AlivePtys(t0)])]

writePrompt(t) == [t EXCEPT !.tobs.prompt = TRUE]

\* The allowlist of a completed line (1627-1631).
base(line) == toLowerCase(split(line)[1])
isOpenclaw(line) == base(line) = W_openclaw /\ Len(split(line)) >= 2
isGatewayCmd(line) == base(line) \in GatewayCmds

\* The line editor without its test for unsafe characters.
completeLineNoUnsafeTest(t, line) ==
  IF line = << >> THEN writePrompt(logLine(t, line, "empty", {}))
  ELSE IF ~isOpenclaw(line) /\ ~isGatewayCmd(line)
  THEN writePrompt(logLine(t, line, "notAllowed", {}))
  ELSE IF isGatewayCmd(line) THEN logLine(t, line, "pseudo", {})
  ELSE logSpawn(t, spawnRestrictedCmd(t, OPENCLAW_NODE, clawArgs(Tail(split(line))), line),
                line)

\* The line editor at the end of a line, up to the pseudo-command or the
\* spawn (1622-1643, 1668-1670).
completeLine(t, line) ==
  IF line = << >> THEN writePrompt(logLine(t, line, "empty", {}))
  ELSE IF ~isOpenclaw(line) /\ ~isGatewayCmd(line)
  THEN writePrompt(logLine(t, line, "notAllowed", {}))
  ELSE IF RESTRICTED_SHELL_UNSAFE(line)
  THEN writePrompt(logLine(t, line, "unsafe", {}))
  ELSE IF isGatewayCmd(line) THEN logLine(t, line, "pseudo", {})
  ELSE logSpawn(t, spawnRestrictedCmd(t, OPENCLAW_NODE, clawArgs(Tail(split(line))), line),
                line)

\* for (const ch of str) { ... } (1619-1688). A pseudo-command (1645-1666)
\* either goes on in the same turn (gateway.stop with no worker, or a call
\* that settles without a timer or an event) or suspends the handler with the
\* characters left; at most one handler is suspended at a time. What the
\* pseudo-command does to the worker is Stop, Restart and EnsureCall.
RECURSIVE lineEdit(_, _, _)
lineEdit(t, str, now) ==
  IF t.ovf \/ str = << >> THEN t
  ELSE
    LET ch == Head(str)
        rest == Tail(str)
        t0 == [t EXCEPT !.tobs.edited = @ \/ AlivePtys(t) # {}]
    IN IF ch \in {CR, LF}
       THEN LET line == trim(t0.inputBuf)
                t1 == completeLine([t0 EXCEPT !.inputBuf = << >>], line)
                pseudo == ~t1.ovf /\ t1.tobs.lines[Len(t1.tobs.lines)].verdict = "pseudo"
            IN IF ~pseudo THEN lineEdit(t1, rest, now)
               ELSE IF now THEN lineEdit(writePrompt(t1), rest, now)
               ELSE IF t1.suspended.on THEN [t1 EXCEPT !.ovf = TRUE]
               ELSE [t1 EXCEPT !.suspended = [on |-> TRUE, rest |-> rest]]
       ELSE IF ch \in {DEL, BS}
       THEN lineEdit([t0 EXCEPT !.inputBuf = IF Len(@) > 0 THEN SubSeq(@, 1, Len(@) - 1)
                                              ELSE @], rest, now)
       ELSE IF ch = ETX
       THEN lineEdit(writePrompt([t0 EXCEPT !.inputBuf = << >>]), rest, now)
       ELSE IF ch = NAK
       THEN lineEdit([t0 EXCEPT !.inputBuf = << >>], rest, now)
       ELSE IF ch \notin ControlChars
       THEN lineEdit([t0 EXCEPT !.inputBuf = Append(@, ch)], rest, now)
       ELSE lineEdit(t0, rest, now)

\* The buffer a turn leaves behind is within the bound.
bounded(t) == [t EXCEPT !.ovf = @ \/ Len(t.inputBuf) > MaxBuf]

\* ws.on("message") of handleRestrictedTerminal for a message that is not a
\* resize (1598-1689).
restrictedMessage(t, str, now) ==
  IF t.activePty # 0
  THEN [t EXCEPT !.tobs.wrote = [to |-> t.activePty, bytes |-> str]]
  ELSE bounded(lineEdit(t, str, now))

\* ws.on("message") of handleFullTerminal for a message that is not a resize
\* (1714-1724).
fullMessage(t, str) == [t EXCEPT !.tobs.wrote = [to |-> t.term, bytes |-> str]]

\* The connection handler with the two handlers exchanged.
connectionSwapped(t, full) ==
  IF ~full
  THEN LET t1 == ptySpawn(t, SHELL, << >>, << >>)
       IN [t1 EXCEPT !.session = "full", !.wsOpen = TRUE, !.term = lastSpawned(t, t1)]
  ELSE writePrompt([t EXCEPT !.session = "restricted", !.wsOpen = TRUE])

\* terminalWss.on("connection") (1731-1737) with the start of the handler it
\* calls (1566-1577, 1696-1704).
connection(t, full) ==
  IF full
  THEN LET t1 == ptySpawn(t, SHELL, << >>, << >>)
       IN [t1 EXCEPT !.session = "full", !.wsOpen = TRUE, !.term = lastSpawned(t, t1)]
  ELSE writePrompt([t EXCEPT !.session = "restricted", !.wsOpen = TRUE])

\* kill() of a pseudo-terminal that has not exited.
ptyKill(t, p) ==
  IF p # 0 /\ t.ptys[p].st = "alive" THEN [t EXCEPT !.ptys[p].st = "killed"] ELSE t

\* The close handler that kills every pseudo-terminal of the session.
closeHandlerKillAll(t) ==
  [t EXCEPT !.wsOpen = FALSE, !.activePty = 0,
            !.ptys = [p \in Ptys |-> IF @[p].st = "alive"
                                     THEN [@[p] EXCEPT !.st = "killed"] ELSE @[p]]]

\* ws.on("close") of the two handlers (1691-1693, 1726-1728).
closeHandler(t) ==
  IF t.session = "restricted"
  THEN [ptyKill(t, t.activePty) EXCEPT !.wsOpen = FALSE, !.activePty = 0]
  ELSE [ptyKill(t, t.term) EXCEPT !.wsOpen = FALSE]

\* The exit callback of pseudo-terminal p (1592-1595, 1710-1712): the full
\* terminal closes the WebSocket, whose close handler then runs.
onExit(t, p) ==
  LET t1 == [t EXCEPT !.ptys[p] = FreePty, !.tobs.exited = p]
  IN IF t.session = "restricted" THEN writePrompt([t1 EXCEPT !.activePty = 0])
     ELSE IF t1.wsOpen THEN closeHandler(t1) ELSE t1

\* The messages a client sends: command lines, whole, in pieces, two in one
\* message, followed by more input; single keys.
Sp == << " " >>
Messages ==
  { W_openclaw \o Sp \o << "s", CR >>,
    W_openclaw \o Sp \o << "s", CR, "q" >>,
    << "O" >> \o Tail(W_openclaw) \o Sp \o << "s", CR >> \o W_openclaw \o Sp \o << "s", CR >>,
    W_openclaw \o Sp \o << "s", ";", CR >>,
    W_openclaw \o << CR >>,
    << "l", "s", LF >>,
    W_stop \o << CR, "q" >>,
    << "G" >> \o Tail(W_start) \o << ";", CR >>,
    W_restart \o << CR >>,
    W_openclaw,
    Sp \o << "s", CR >>,
    << CR >>,
    << DEL >>,
    << TAB, BS >>,
    << ETX >>,
    << NAK >> }

\* Whether a pseudo-command goes on in the same turn is a choice only where a
\* line with a "." can be completed.
NowChoices(str) ==
  IF \E i \in 1..Len(str) : str[i] = "." THEN BOOLEAN ELSE {FALSE}

\* A client connects to the terminal (1731).
TermConnect ==
  /\ session = "none"
  /\ CommitT(connection(T, TERMINAL_FULL_ACCESS))

\* A message that is not a resize reaches the session (1598, 1714).
TermMessage ==
  /\ wsOpen
  /\ \E str \in Messages : \E now \in NowChoices(inputBuf \o str) :
       CommitT(IF session = "restricted" THEN restrictedMessage(T, str, now)
               ELSE fullMessage(T, str))

\* The pseudo-command a handler waits in is done: the handler answers, writes
\* the prompt and goes on with the characters left (1649-1665). On a closed
\* WebSocket ws.send either throws, which ends the handler, or does nothing.
TermResume ==
  /\ suspended.on
  /\ \E now \in NowChoices(inputBuf \o suspended.rest), thrown \in BOOLEAN :
       /\ thrown => ~wsOpen
       /\ CommitT(IF thrown THEN [T EXCEPT !.suspended = NotSuspended]
                  ELSE bounded(lineEdit(writePrompt([T EXCEPT !.suspended = NotSuspended]),
                                        suspended.rest, now)))

\* A pseudo-terminal process exits, of itself or killed (1592, 1710).
PtyExit ==
  \E p \in Ptys :
    /\ ptys[p].st # "free"
    /\ CommitT(onExit(T, p))

\* The terminal WebSocket closes (1691, 1726).
TermClose ==
  /\ wsOpen
  /\ CommitT(closeHandler(T))

InitTerminal ==
  /\ Boot
  /\ configured = TRUE
  /\ counting = FALSE
  /\ TERMINAL_FULL_ACCESS \in BOOLEAN
  /\ archive = << >>
  /\ upload = NoUpload

NextTerminal ==
  \/ TermConnect
  \/ TermMessage
  \/ TermResume
  \/ PtyExit
  \/ TermClose

SpecTerminal == InitTerminal /\ [][NextTerminal]_vars

\* ------------------------------------------------- the import's path filter

\* The letters of [A-Za-z] that the paths use.
Letters == {"a", "b", "c", "d", "e", "f", "i", "j", "l", "n", "o", "p", "s", "t", "w",
            "C"}

\* p.split("/"): the segments of a path, the empty ones included.
RECURSIVE splitSlash(_)
splitSlash(p) ==
  IF \A i \in 1..Len(p) : p[i] # "/" THEN << p >>
  ELSE LET i == CHOOSE k \in 1..Len(p) : p[k] = "/" /\ \A j \in 1..(k - 1) : p[j] # "/"
       IN << SubSeq(p, 1, i - 1) >> \o splitSlash(SubSeq(p, i + 1, Len(p)))

includes(segs, seg) == \E i \in 1..Len(segs) : segs[i] = seg

\* A filter that also drops the paths that begin with a dot.
looksSafeTarPathNoDotfile(p) ==
  p # << >> /\ p[1] \notin {"/", "\\", "."}

\* looksSafeTarPath(p) (1336-1345).
looksSafeTarPath(p) ==
  IF p = << >> THEN FALSE
  ELSE IF p[1] = "/" \/ p[1] = "\\" THEN FALSE
  ELSE IF Len(p) >= 3 /\ p[1] \in Letters /\ p[2] = ":" /\ p[3] \in {"\\", "/"} THEN FALSE
  ELSE IF includes(splitSlash(p), << ".", "." >>) THEN FALSE
  ELSE TRUE

\* The paths of the entries: every string of at most MaxPath characters over
\* PathChars, and three longer ones.
PathChars == {"a", "C", "1", ".", "/", "\\", ":"}
P_etc_passwd == << ".", ".", "/", ".", ".", "/", "e", "t", "c", "/", "p", "a", "s", "s",
                   "w", "d" >>
P_a_up_up_b == << "a", "/", ".", ".", "/", ".", ".", "/", "b" >>
P_data_file == << "d", "a", "t", "a", "/", "f", "i", "l", "e", ".", "j", "s", "o", "n" >>
Paths ==
  UNION {[1..n -> PathChars] : n \in 0..MaxPath}
    \cup {P_etc_passwd, P_a_up_up_b, P_data_file}

\* tar.x({ ..., filter: (p) => looksSafeTarPath(p) }) comes to an entry the
\* filter lets through and writes it (1393-1404).
TarExtractEntry ==
  /\ archive # << >>
  /\ looksSafeTarPath(Head(archive))
  /\ archive' = Tail(archive)
  /\ extracted' = extracted \cup {Head(archive)}
  /\ UNCHANGED << skipped, exceptTar >>

\* ... or to an entry the filter drops, and goes on to the next (1400-1403).
TarSkipEntry ==
  /\ archive # << >>
  /\ ~looksSafeTarPath(Head(archive))
  /\ archive' = Tail(archive)
  /\ skipped' = skipped \cup {Head(archive)}
  /\ UNCHANGED << extracted, exceptTar >>

\* An uploaded archive: an entry with any path, then data/file.json.
InitImportFilter ==
  /\ Boot
  /\ configured = TRUE
  /\ counting = FALSE
  /\ TERMINAL_FULL_ACCESS = FALSE
  /\ \E p \in Paths : archive = << p, P_data_file >>
  /\ upload = NoUpload

NextImportFilter ==
  \/ TarExtractEntry
  \/ TarSkipEntry

SpecImportFilter == InitImportFilter /\ [][NextImportFilter]_vars

\* ---- export followed by import of the same archive (1280-1328, 1368-1421) ----

\* Directory names under /data.
D_openclaw == << ".", "o", "p", "e", "n", "c", "l", "a", "w" >>
D_clawdbot == << ".", "c", "l", "a", "w", "d", "b", "o", "t" >>
D_workspace == << "w", "o", "r", "k", "s", "p", "a", "c", "e" >>

\* The names of the files a directory may hold, in the order tar.c reads them.
FileNames == << << "a" >>, << ".", ".", "b" >>, << "c", ".", "j", "s", "o", "n" >> >>

\* OPENCLAW_STATE_DIR (27-29) relative to /data, as a sequence of segments:
\* /data/.openclaw, /data/.clawdbot, /data itself or /data/C:.
StateDirs == {<< D_openclaw >>, << D_clawdbot >>, << >>, << << "C", ":" >> >>}

\* OPENCLAW_WORKSPACE_DIR (31-33): /data/workspace, or workspace under the
\* state directory.
WorkspaceDirs(stateDir) == {<< D_workspace >>, stateDir \o << D_workspace >>}

\* path.join: the segments with "/" between them.
RECURSIVE joinSlash(_)
joinSlash(segs) ==
  IF segs = << >> THEN << >>
  ELSE IF Len(segs) = 1 THEN segs[1]
  ELSE segs[1] \o << "/" >> \o joinSlash(Tail(segs))

\* path.relative(dataRoot, dir) || "." (1302-1305).
relativeOrDot(dir) == IF dir = << >> THEN << "." >> ELSE joinSlash(dir)

\* The entries tar.c writes for one path of its list: the directory, then
\* the files it holds, each under the path as it was given (1308-1317).
dirEntries(path, files) ==
  << path \o << "/" >> >>
    \o [i \in 1..Len(SelectSeq(FileNames, LAMBDA f : f \in files)) |->
          path \o << "/" >> \o SelectSeq(FileNames, LAMBDA f : f \in files)[i]]

\* The elements of a sequence.
Range(q) == {q[i] : i \in 1..Len(q)}

\* path.resolve(cwd, p) relative to cwd: the segments of p without the empty
\* ones and the "." ones (the paths here have no ".." segment).
pathResolve(p) ==
  joinSlash(SelectSeq(splitSlash(p), LAMBDA seg : seg # << >> /\ seg # << "." >>))

\* A path is the directory dir or lies under it.
isUnder(p, dir) ==
  p = dir \/ (Len(p) > Len(dir) /\ SubSeq(p, 1, Len(dir)) = dir /\ p[Len(dir) + 1] = "/")

\* renameSync(legacyDir, openclawDir), or cpSync into it and rmSync
\* (1408-1421): what was under .clawdbot is under .openclaw.
migrateLegacy(p) ==
  IF isUnder(p, D_clawdbot)
  THEN D_openclaw \o SubSeq(p, Len(D_clawdbot) + 1, Len(p))
  ELSE p

\* GET /setup/export (1280-1328): both directories are under /data, tar.c
\* runs in /data on the two relative paths.
ExportRun ==
  /\ backup = NoBackup
  /\ archive = << >>
  /\ \E stateDir \in StateDirs : \E workspaceDir \in WorkspaceDirs(stateDir) :
     \E stateFiles \in SUBSET Range(FileNames) :
     \E workspaceFiles \in SUBSET Range(FileNames) :
       LET entries == dirEntries(relativeOrDot(stateDir), stateFiles)
                        \o dirEntries(relativeOrDot(workspaceDir), workspaceFiles)
       IN /\ archive' = entries
          /\ backup' = [backup EXCEPT !.entries = Range(entries)]
  /\ UNCHANGED << extracted, skipped, exceptTarBackup >>

\* POST /setup/import after tar.x has gone through the archive (1406-1421):
\* the legacy directory, if the extraction left one, is moved to .openclaw.
ImportMigrate ==
  /\ backup.entries # {}
  /\ ~backup.done
  /\ archive = << >>
  /\ backup' = [backup EXCEPT
                  !.done = TRUE,
                  !.restored =
                    IF \E p \in extracted : isUnder(pathResolve(p), D_clawdbot)
                    THEN {migrateLegacy(pathResolve(p)) : p \in extracted}
                    ELSE {pathResolve(p) : p \in extracted}]
  /\ UNCHANGED << archive, extracted, skipped, exceptTarBackup >>

InitRoundTrip ==
  /\ Boot
  /\ configured = TRUE
  /\ counting = FALSE
  /\ TERMINAL_FULL_ACCESS = FALSE
  /\ archive = << >>
  /\ upload = NoUpload

NextRoundTrip ==
  \/ ExportRun
  \/ TarExtractEntry
  \/ TarSkipEntry
  \/ ImportMigrate

SpecRoundTrip == InitRoundTrip /\ [][NextRoundTrip]_vars

\* ---- the proxy's static-asset rewrite (1499-1513) ----

\* The extensions of STATIC_EXT (1507).
StaticExts ==
  {<< "s", "v", "g" >>, << "i", "c", "o" >>, << "p", "n", "g" >>, << "j", "p", "g" >>,
   << "j", "p", "e", "g" >>, << "g", "i", "f" >>, << "w", "e", "b", "p" >>,
   << "a", "v", "i", "f" >>, << "c", "s", "s" >>, << "j", "s" >>, << "m", "j", "s" >>,
   << "m", "a", "p" >>, << "w", "o", "f", "f" >>, << "w", "o", "f", "f", "2" >>,
   << "t", "t", "f" >>, << "e", "o", "t" >>, << "j", "s", "o", "n" >>,
   << "w", "e", "b", "m", "a", "n", "i", "f", "e", "s", "t" >>}

startsWith(str, pre) == Len(str) >= Len(pre) /\ SubSeq(str, 1, Len(pre)) = pre

endsWith(str, suf) ==
  Len(str) >= Len(suf) /\ SubSeq(str, Len(str) - Len(suf) + 1, Len(str)) = suf

\* str.indexOf("?"), 0 when there is none.
indexOfQuery(str) ==
  IF \E i \in 1..Len(str) : str[i] = "?"
  THEN CHOOSE i \in 1..Len(str) : str[i] = "?" /\ \A j \in 1..(i - 1) : str[j] # "?"
  ELSE 0

\* req.path: the URL up to its first "?".
reqPath(url) ==
  IF indexOfQuery(url) = 0 THEN url ELSE SubSeq(url, 1, indexOfQuery(url) - 1)

\* The URL from its first "?" on, "" without one.
queryOfUrl(url) ==
  IF indexOfQuery(url) = 0 THEN << >> ELSE SubSeq(url, indexOfQuery(url), Len(url))

\* STATIC_EXT.test(path) (1507): the path ends with a dot and one of the
\* extensions, in any case.
STATIC_EXT(path) ==
  \E e \in StaticExts : endsWith(toLowerCase(path), << "." >> \o e)

S_openclawPrefix == << "/", "o", "p", "e", "n", "c", "l", "a", "w" >>

\* A rewrite that leaves the query string out.
staticRewriteNoQuery(url) ==
  IF startsWith(reqPath(url), S_openclawPrefix \o << "/" >>) /\ STATIC_EXT(reqPath(url))
  THEN SubSeq(reqPath(url), Len(S_openclawPrefix) + 1, Len(reqPath(url)))
  ELSE url

\* The URL handed to proxy.web (1508-1513).
staticRewrite(url) ==
  IF startsWith(reqPath(url), S_openclawPrefix \o << "/" >>) /\ STATIC_EXT(reqPath(url))
  THEN SubSeq(reqPath(url), Len(S_openclawPrefix) + 1, Len(reqPath(url)))
         \o (IF indexOfQuery(url) # 0 THEN SubSeq(url, indexOfQuery(url), Len(url))
             ELSE << >>)
  ELSE url

\* The request URLs: a directory, a stem, an extension and a query string.
UrlDirs ==
  {<< "/", "o", "p", "e", "n", "c", "l", "a", "w", "/" >>,
   << "/", "o", "p", "e", "n", "c", "l", "a", "w" >>, << "/" >>,
   << "/", "O", "p", "e", "n", "C", "l", "a", "w", "/" >>,
   << "/", "o", "p", "e", "n", "c", "l", "a", "w", "/", "a", "s", "s", "e", "t", "s", "/" >>,
   << "/", "x", "/", "o", "p", "e", "n", "c", "l", "a", "w", "/" >>,
   << "/", "o", "p", "e", "n", "c", "l", "a", "w", "x", "/" >>}
UrlStems ==
  {<< "a" >>, << >>, << "c", "h", "a", "t" >>, << "a", ".", "j", "s" >>}
UrlExts ==
  {<< >>, << ".", "j", "s" >>, << ".", "J", "S" >>, << ".", "j", "p", "e", "g" >>,
   << ".", "j", "p", "g" >>, << ".", "j", "p", "e" >>, << ".", "w", "o", "f", "f" >>,
   << ".", "w", "o", "f", "f", "2" >>, << ".", "w", "o", "f", "f", "3" >>,
   << ".", "j", "s", "x" >>, << ".", "j", "s", "o", "n" >>,
   << ".", "s", "v", "g", "/" >>, << "." >>}
UrlQueries ==
  {<< >>, << "?" >>, << "?", "v", "=", "1" >>,
   << "?", "f", "=", "a", ".", "c", "s", "s" >>, << "?", "a", "?", "b" >>}
Urls ==
  {d \o s \o e \o q : d \in UrlDirs, s \in UrlStems, e \in UrlExts, q \in UrlQueries}

\* app.use(async (req, res) => ...) reaches proxy.web (1513).
ProxyForward ==
  /\ rewrite = NoRewrite
  /\ \E url \in Urls : rewrite' = [url |-> url, forwarded |-> staticRewrite(url)]
  /\ UNCHANGED exceptRewrite

NextRewrite == ProxyForward

SpecRewrite == Init /\ [][NextRewrite]_vars

\* ---- the two gates of the setup password (394-409, 1550-1561, 1739-1753) ----

\* SETUP_PASSWORD (36-45).
SETUP_PASSWORD == << ">", ">", "?" >>

\* The base64 alphabet; the value of a character is its index less one.
Base64Alphabet ==
  << "A", "B", "C", "D", "E", "F", "G", "H", "I", "J", "K", "L", "M", "N", "O", "P",
     "Q", "R", "S", "T", "U", "V", "W", "X", "Y", "Z", "a", "b", "c", "d", "e", "f",
     "g", "h", "i", "j", "k", "l", "m", "n", "o", "p", "q", "r", "s", "t", "u", "v",
     "w", "x", "y", "z", "0", "1", "2", "3", "4", "5", "6", "7", "8", "9", "+", "/" >>

\* The characters of the bytes 32 to 126 ("BQ" is the backquote).
Ascii ==
  << " ", "!", "\"", "#", "$", "%", "&", "'", "(", ")", "*", "+", ",", "-", ".", "/",
     "0", "1", "2", "3", "4", "5", "6", "7", "8", "9", ":", ";", "<", "=", ">", "?",
     "@", "A", "B", "C", "D", "E", "F", "G", "H", "I", "J", "K", "L", "M", "N", "O",
     "P", "Q", "R", "S", "T", "U", "V", "W", "X", "Y", "Z", "[", "\\", "]", "^", "_",
     "BQ", "a", "b", "c", "d", "e", "f", "g", "h", "i", "j", "k", "l", "m", "n", "o",
     "p", "q", "r", "s", "t", "u", "v", "w", "x", "y", "z", "{", "|", "}", "~" >>

\* The character of a byte; U+FFFD, written "?", outside 32..126.
fromByte(b) == IF b \in 32..126 THEN Ascii[b - 31] ELSE "?"

\* Buffer.from(str, "base64").toString("utf8"): the characters outside the
\* alphabet are passed over, every 8 bits of the 6-bit values give a byte.
base64Decode(str) ==
  LET digits == SelectSeq(str, LAMBDA ch : ch \in Range(Base64Alphabet))
      value(i) == (CHOOSE k \in 1..64 : Base64Alphabet[k] = digits[i]) - 1
      byte(j) == LET i == ((8 * j) \div 6) + 1
                     r == (8 * j) % 6
                 IN ((value(i) * 64 + value(i + 1)) \div Pow2(4 - r)) % 256
  IN [j \in 1..((Len(digits) * 6) \div 8) |-> fromByte(byte(j - 1))]

\* decoded.indexOf(":") and decoded.slice(idx + 1), "" without a colon
\* (403-405, 1557-1558).
passwordOf(decoded) ==
  IF ":" \in Range(decoded)
  THEN LET idx == CHOOSE i \in 1..Len(decoded) :
                    decoded[i] = ":" /\ \A j \in 1..(i - 1) : decoded[j] # ":"
       IN SubSeq(decoded, idx + 1, Len(decoded))
  ELSE << >>

\* encodeURIComponent on a base64 string: "+", "/" and "=" are escaped.
RECURSIVE encodeURIComponent(_)
encodeURIComponent(str) ==
  IF str = << >> THEN << >>
  ELSE (CASE Head(str) = "+" -> << "%", "2", "B" >>
          [] Head(str) = "/" -> << "%", "2", "F" >>
          [] Head(str) = "=" -> << "%", "3", "D" >>
          [] OTHER -> << Head(str) >>) \o encodeURIComponent(Tail(str))

HexDigits == << "0", "1", "2", "3", "4", "5", "6", "7", "8", "9", "A", "B", "C", "D", "E", "F" >>
hexValue(ch) == (CHOOSE k \in 1..16 : HexDigits[k] = ch) - 1

\* The value URLSearchParams gives for a parameter: "+" is a space, "%XY" the
\* character of the byte XY.
RECURSIVE searchParamDecode(_)
searchParamDecode(str) ==
  IF str = << >> THEN << >>
  ELSE IF Head(str) = "+" THEN << " " >> \o searchParamDecode(Tail(str))
  ELSE IF /\ Head(str) = "%"
          /\ Len(str) >= 3
          /\ str[2] \in Range(HexDigits)
          /\ str[3] \in Range(HexDigits)
       THEN << fromByte(16 * hexValue(str[2]) + hexValue(str[3])) >>
              \o searchParamDecode(SubSeq(str, 4, Len(str)))
  ELSE << Head(str) >> \o searchParamDecode(Tail(str))

S_tokenParam == << "?", "t", "o", "k", "e", "n", "=" >>
S_terminalPath == << "/", "s", "e", "t", "u", "p", "/", "t", "e", "r", "m", "i", "n", "a", "l" >>

\* url.searchParams.get("token") || "" (1552-1553): the query strings of the
\* requests hold one parameter.
tokenOf(url) ==
  IF startsWith(queryOfUrl(url), S_tokenParam)
  THEN searchParamDecode(SubSeq(queryOfUrl(url), Len(S_tokenParam) + 1,
                                Len(queryOfUrl(url))))
  ELSE << >>

\* authenticateWs(req) once new URL has parsed the request (1553-1560).
authenticateWs(url) ==
  IF tokenOf(url) = << >> THEN FALSE
  ELSE passwordOf(base64Decode(tokenOf(url))) = SETUP_PASSWORD

\* server.on("upgrade") (1739-1753): new URL(req.url, "http://" + host)
\* throws on a Host header that is no host, before any answer is written.
upgradeTerminal(url, host) ==
  IF reqPath(url) # S_terminalPath THEN "proxy"
  ELSE IF host = "invalid" THEN "threw"
  ELSE IF ~authenticateWs(url) THEN "401 destroyed"
  ELSE "session"

\* header.split(" ") (396): the scheme and what follows the first space.
splitSpace(header) ==
  IF " " \in Range(header)
  THEN LET i == CHOOSE k \in 1..Len(header) :
                  header[k] = " " /\ \A j \in 1..(k - 1) : header[j] # " "
           rest == SubSeq(header, i + 1, Len(header))
       IN << SubSeq(header, 1, i - 1),
             IF " " \in Range(rest)
             THEN SubSeq(rest, 1, (CHOOSE k \in 1..Len(rest) :
                    rest[k] = " " /\ \A j \in 1..(k - 1) : rest[j] # " ") - 1)
             ELSE rest >>
  ELSE << header, << >> >>

S_Basic == << "B", "a", "s", "i", "c" >>

\* requireSetupAuth (394-409): the status of the answer, 200 for next().
requireSetupAuth(header) ==
  IF splitSpace(header)[1] # S_Basic \/ splitSpace(header)[2] = << >> THEN 401
  ELSE IF passwordOf(base64Decode(splitSpace(header)[2])) # SETUP_PASSWORD THEN 401
  ELSE 200

\* The base64 credentials the clients compute: btoa of ":>>?", ">>?", "u:>>?",
\* ":>>", ":>>?x", "::>>?", ":", ">>?:", "u:", ":>>>", "a:b:>>?" and ":?>>".
Credentials ==
  {<< "O", "j", "4", "+", "P", "w", "=", "=" >>, << "P", "j", "4", "/" >>,
   << "d", "T", "o", "+", "P", "j", "8", "=" >>, << "O", "j", "4", "+" >>,
   << "O", "j", "4", "+", "P", "3", "g", "=" >>,
   << "O", "j", "o", "+", "P", "j", "8", "=" >>, << "O", "g", "=", "=" >>,
   << "P", "j", "4", "/", "O", "g", "=", "=" >>, << "d", "T", "o", "=" >>,
   << "O", "j", "4", "+", "P", "g", "=", "=" >>,
   << "Y", "T", "p", "i", "O", "j", "4", "+", "P", "w", "=", "=" >>,
   << "O", "j", "8", "+", "P", "g", "=", "=" >>}

\* The URLs of the upgrade requests: a path, and no query string, another
\* parameter or the token as the client escapes it.
UpgradePaths ==
  {<< "/", "s", "e", "t", "u", "p", "/", "t", "e", "r", "m", "i", "n", "a", "l" >>,
   << "/", "s", "e", "t", "u", "p", "/", "t", "e", "r", "m", "i", "n", "a", "l", "/" >>,
   << "/", "o", "p", "e", "n", "c", "l", "a", "w", "/", "w", "s" >>}
UpgradeUrls(credential) ==
  {p \o q : p \in UpgradePaths,
            q \in {<< >>, << "?", "x", "=", "1" >>, S_tokenParam,
                   S_tokenParam \o encodeURIComponent(credential)}}

\* An upgrade request arrives, and the same credential is sent in the
\* Authorization header of an HTTP request to /setup.
GateTry ==
  /\ gate = NoGate
  /\ \E credential \in Credentials : \E url \in UpgradeUrls(credential) :
     \E host \in {"valid", "invalid"} :
       gate' = [url |-> url, host |-> host, credential |-> credential,
                ws |-> upgradeTerminal(url, host),
                http |-> requireSetupAuth(S_Basic \o << " " >> \o credential)]
  /\ UNCHANGED exceptGate

NextGate == GateTry

SpecGate == Init /\ [][NextGate]_vars

\* ------------------------------------------------------ import and export

\* POST /setup/import is requested, with the state and workspace directories
\* under /data: the handler signals the worker and sleeps, or goes on to read
\* the body at once (1367-1382).
ImportStart ==
  /\ SumOver(imports, ImportPcs) < MaxImports
  /\ imports' = IF gatewayProc # 0 THEN [imports EXCEPT !["sleep"] = @ + 1]
                ELSE [imports EXCEPT !["body"] = @ + 1]
  /\ xobs' = NoXobs
  /\ UNCHANGED << supVars, exports, exceptXfer >>

\* The sleep(750) of an import ends: gatewayProc = null (1380-1381).
ImportSleepDone ==
  /\ imports["sleep"] > 0
  /\ imports' = [imports EXCEPT !["sleep"] = @ - 1, !["bodyStopped"] = @ + 1]
  /\ xobs' = NoXobs
  /\ CommitSup([S EXCEPT !.gatewayProc = 0])
  /\ UNCHANGED << exports, exceptXfer >>

\* The body of an import has been read: an empty one is answered 400, any
\* other is written to a temporary file and tar.x is started (1384-1393).
ImportBodyRead ==
  \E stopped \in BOOLEAN, empty \in BOOLEAN :
    LET pc == IF stopped THEN "bodyStopped" ELSE "body"
        to == IF stopped THEN "extractStopped" ELSE "extract"
    IN /\ imports[pc] > 0
       /\ imports' = IF empty THEN [imports EXCEPT ![pc] = @ - 1]
                     ELSE [imports EXCEPT ![pc] = @ - 1, ![to] = @ + 1]
       /\ xobs' = IF empty THEN [answer |-> "400", stopped |-> stopped,
                                 restarted |-> FALSE, configured |-> configured]
                  ELSE NoXobs
       /\ UNCHANGED << supVars, exports, exceptXfer >>

\* tar.x of an import settles: it threw and the handler answers 500, or it
\* has extracted the archive, with a config file or without, and the handler
\* calls restartGateway if the instance is configured; the answer that
\* follows the call is taken with it (1393-1446).
ImportExtractDone ==
  \E stopped \in BOOLEAN, threw \in BOOLEAN, config \in BOOLEAN, c \in Choices(S, 0) :
    LET pc == IF stopped THEN "extractStopped" ELSE "extract"
        s1 == [S EXCEPT !.configured = @ \/ config]
    IN /\ imports[pc] > 0
       /\ imports' = [imports EXCEPT ![pc] = @ - 1]
       /\ xobs' = [answer |-> IF threw THEN "500" ELSE "ok", stopped |-> stopped,
                   restarted |-> ~threw /\ s1.configured, configured |-> s1.configured]
       /\ IF threw \/ ~s1.configured THEN CommitSup(s1)
          ELSE CommitSup(Drain(restartGateway(s1, c), c))
       /\ UNCHANGED << exports, exceptXfer >>

\* GET /setup/export is requested: tar.c is piped to the response (1280-1328).
ExportStart ==
  /\ exports < MaxExports
  /\ exports' = exports + 1
  /\ xobs' = NoXobs
  /\ UNCHANGED << supVars, imports, exceptXfer >>

\* The stream of an export ends, or fails (1321-1327).
ExportDone ==
  /\ exports > 0
  /\ exports' = exports - 1
  /\ xobs' = NoXobs
  /\ UNCHANGED << supVars, imports, exceptXfer >>

\* Imports and exports, with the worker started at boot or by gateway.start,
\* in the behaviours where no restart timer fires and every worker that
\* restartGateway signals exits before the kill-wait gives up.
NextTransfer ==
  \/ ImportStart
  \/ ImportSleepDone
  \/ ImportBodyRead
  \/ ImportExtractDone
  \/ ExportStart
  \/ ExportDone
  \/ EnsureCall
  \/ ProcListen
  \/ ProcExit
  \/ AttemptCleanupDone
  \/ AttemptLoopTop
  \/ AttemptProbeDone
  \/ DoctorDone
  \/ BgLoopTop
  \/ BgProbeDone

InitTransfer ==
  /\ Boot
  /\ configured = TRUE
  /\ counting = FALSE
  /\ TERMINAL_FULL_ACCESS = FALSE
  /\ archive = << >>
  /\ upload = NoUpload

SpecTransfer == InitTransfer /\ [][NextTransfer]_vars

\* ---------------------------------------------------- the import's upload

\* res.status(...).send(...): the answer goes out unless the socket of the
\* request has been destroyed (1385, 1443, 1446).
answerWith(u, status) ==
  [u EXCEPT !.answer = status, !.delivered = ~u.destroyed]

\* readBodyBuffer's 'data' listener (1351-1359): past the ceiling it rejects
\* the promise and destroys the request, which destroys its socket.
onData(u, len, maxBytes) ==
  LET total == u.total + len
  IN IF total > maxBytes
     THEN [u EXCEPT !.total = total, !.state = "rejected", !.destroyed = TRUE]
     ELSE [u EXCEPT !.total = total, !.kept = @ + len]

\* The handler after "await readBodyBuffer" threw: the catch block (1444-1446).
importCatch(u) == answerWith(u, "500")

\* The handler after "await readBodyBuffer" returned: an empty body is
\* answered 400; any other is written to a temporary file and extracted, and
\* the handler answers OK, or 500 if tar.x threw (1384-1446).
importAfterBody(u, threw) ==
  IF u.kept = 0 THEN answerWith(u, "400")
  ELSE IF threw THEN answerWith(u, "500")
  ELSE answerWith([u EXCEPT !.extracted = TRUE], "ok")

\* A chunk of the body arrives (1351); a rejection is caught by the handler
\* in the same turn.
BodyData ==
  /\ upload.state = "reading"
  /\ ~upload.destroyed
  /\ upload.pending # << >>
  /\ LET u == onData([upload EXCEPT !.pending = Tail(@)], Head(upload.pending),
                     IMPORT_MAX_BYTES)
     IN upload' = IF u.state = "rejected" THEN importCatch(u) ELSE u
  /\ UNCHANGED exceptBody

\* The body has ended (1360): the promise resolves and the handler goes on.
BodyEnd ==
  /\ upload.state = "reading"
  /\ upload.pending = << >>
  /\ \E threw \in BOOLEAN :
       upload' = importAfterBody([upload EXCEPT !.state = "resolved"], threw)
  /\ UNCHANGED exceptBody

\* The uploads: up to MaxChunks chunks of one byte, half the ceiling or the
\* whole ceiling.
ChunkSizes == {1, IMPORT_MAX_BYTES \div 2, IMPORT_MAX_BYTES}
Uploads == UNION {[1..n -> ChunkSizes] : n \in 0..MaxChunks}

InitBody ==
  /\ Boot
  /\ configured = TRUE
  /\ counting = FALSE
  /\ TERMINAL_FULL_ACCESS = FALSE
  /\ archive = << >>
  /\ \E chunks \in Uploads : upload = [NoUpload EXCEPT !.pending = chunks]

NextBody ==
  \/ BodyData
  \/ BodyEnd

SpecBody == InitBody /\ [][NextBody]_vars

\* ------------------------------------------------------------ gateway.stop
\* The operator's gateway.stop and gateway.start, from the console or the
\* terminal, with the workers that a gateway.stop has signalled.

\* gateway.stop up to its sleep (1027-1030, 1650-1653).
GatewayStop ==
  /\ CommitSup(stopWorker(S, "stop"))
  /\ stopSent' = IF gatewayProc # 0 /\ procs[gatewayProc].st = "alive"
                 THEN stopSent \cup {gatewayProc} ELSE stopSent
  /\ stopLast' = TRUE
  /\ UNCHANGED exceptStop

\* gateway.start (1035-1038, 1657-1660).
GatewayStart ==
  /\ \E c \in Choices(S, 0) : CommitSup(Drain(ensureGatewayRunning(S, "call", c), c))
  /\ stopLast' = FALSE
  /\ UNCHANGED << stopSent, exceptStop >>

\* A worker's 'exit' event (278-292).
WorkerExit ==
  \E p \in Procs, ev \in ExitEvents :
    /\ procs[p].st = "alive"
    /\ \E c \in Choices(S, killWait[p]) : CommitSup(exitTurn(p, ev, c))
    /\ stopSent' = stopSent \ {p}
    /\ UNCHANGED << stopLast, exceptStop >>

NextStop ==
  \/ GatewayStop
  \/ GatewayStart
  \/ WorkerExit
  \/ StopSleepDone
  \/ RestartTimerFire
  \/ ProcListen
  \/ AttemptCleanupDone
  \/ AttemptLoopTop
  \/ AttemptProbeDone
  \/ DoctorDone
  \/ BgLoopTop
  \/ BgProbeDone

SpecStop == InitTransfer /\ [][NextStop]_vars

\* ------------------------------------------------------------- spawn error
\* gatewayProc.on("error") (270-276): lastGatewayError is a log text outside
\* the model.
errorHandler(s) == [s EXCEPT !.gatewayProc = 0, !._gatewayReady = FALSE]

\* The 'error' event of a worker that the OS could not create: the handle that
\* childProcess.spawn returned stands for no process, and no 'exit' event
\* follows.
SpawnError ==
  \E p \in Procs :
    /\ procs[p].st = "alive"
    /\ ~procs[p].listening
    /\ gatewayProc = p
    /\ killWait[p] = 0
    /\ Commit(errorHandler([S EXCEPT !.procs[p] = FreeProc]))

NextSpawnError ==
  \/ EnsureCall
  \/ ProxyRequest
  \/ RestartTimerFire
  \/ SpawnError
  \/ ProcListen
  \/ ProcExit
  \/ AttemptCleanupDone
  \/ AttemptLoopTop
  \/ AttemptProbeDone
  \/ DoctorDone
  \/ BgLoopTop
  \/ BgProbeDone

SpecSpawnError == InitTransfer /\ [][NextSpawnError]_vars

\* ---------------------------------------------------------------- readiness
\* An instance, configured at boot or by onboarding, whose worker, once
\* spawned, binds the port and stays alive as long as a start attempt is in
\* flight, and whose readiness deadline does not pass: calls of
\* ensureGatewayRunning, HTTP requests and upgrades, the restart timer, and
\* the attempt.

\* The attempt's sleep(300) ends before the deadline: next loop test (170-182).
AttemptLoopTopInTime ==
  /\ gatewayStarting = "sleep"
  /\ Commit(waitLoopTop(S, C0))

\* A worker's 'exit' event while no start attempt is in flight (278-292).
WorkerExitIdle ==
  /\ gatewayStarting = "null"
  /\ \E p \in Procs, ev \in ExitEvents :
       /\ procs[p].st = "alive"
       /\ Commit(exitTurn(p, ev, C0))

NextReady ==
  \/ Configure
  \/ EnsureCall
  \/ RestartTimerFire
  \/ WorkerExitIdle
  \/ ProxyRequest
  \/ UpgradeRequest
  \/ ProcListen
  \/ AttemptCleanupDone
  \/ AttemptLoopTopInTime
  \/ AttemptProbeDone

\* The timers of the two sleeps fire, the result of a connect is delivered,
\* and the worker binds the port.
SpecReady ==
  /\ Init
  /\ [][NextReady]_vars
  /\ WF_vars(AttemptCleanupDone)
  /\ WF_vars(AttemptLoopTopInTime)
  /\ WF_vars(AttemptProbeDone)
  /\ WF_vars(ProcListen)

\* ------------------------------------------------------------------ runCmd

\* resolve(value) of the promise: only the first call settles it.
resolve(r, value) == IF r.result = -1 THEN [r EXCEPT !.result = value] ELSE r

\* clearTimeout of a timer that may be pending.
clearTimeout(st) == IF st = "pending" THEN "cleared" ELSE st

\* runCmd up to the return of its promise (693-707).
runCmdStart(r) == [r EXCEPT !.proc = "running", !.timer = "pending", !.ev = "call"]

\* The timeout callback without its resolve.
onTimeoutNoResolve(r) ==
  [r EXCEPT !.timer = "fired", !.sigterm = r.proc = "running" \/ @,
            !.killTimer = "pending", !.ev = "timeout"]

\* The timeout callback (710-717).
onTimeout(r) ==
  resolve([r EXCEPT !.timer = "fired", !.sigterm = r.proc = "running" \/ @,
                    !.killTimer = "pending", !.ev = "timeout"], 124)

\* The callback of killTimer (712-714).
onKillTimeout(r) ==
  [r EXCEPT !.killTimer = "fired", !.sigkill = r.proc = "running" \/ @,
            !.ev = "killTimeout"]

\* proc.on("error") (719-724).
onError(r) ==
  resolve([r EXCEPT !.timer = clearTimeout(@), !.killTimer = clearTimeout(@),
                    !.ev = "error"], 127)

\* proc.on("close") (726-730): code ?? 0.
onClose(r, code) ==
  resolve([r EXCEPT !.proc = "closed", !.code = code, !.timer = clearTimeout(@),
                    !.killTimer = clearTimeout(@), !.ev = "close"],
          IF code = -2 THEN 0 ELSE code)

\* runCmd is called (692).
RunCmdCall ==
  \E i \in Cmds :
    /\ cmds[i].proc = "none"
    /\ cmds' = [cmds EXCEPT ![i] = runCmdStart(@)]
    /\ UNCHANGED exceptCmd

\* The timeout of a call elapses (710).
CmdTimeout ==
  \E i \in Cmds :
    /\ cmds[i].timer = "pending"
    /\ cmds' = [cmds EXCEPT ![i] = onTimeout(@)]
    /\ UNCHANGED exceptCmd

\* The two seconds after a timeout elapse (712).
CmdKillTimeout ==
  \E i \in Cmds :
    /\ cmds[i].killTimer = "pending"
    /\ cmds' = [cmds EXCEPT ![i] = onKillTimeout(@)]
    /\ UNCHANGED exceptCmd

\* The subprocess emits 'error': it could not be spawned, or not be
\* signalled (719). It emits it at most once here.
CmdError ==
  \E i \in Cmds :
    /\ cmds[i].proc = "running"
    /\ cmds[i].ev # "error"
    /\ cmds' = [cmds EXCEPT ![i] = onError(@)]
    /\ UNCHANGED exceptCmd

\* The subprocess emits 'close', with an exit code or with null (726).
CmdClose ==
  \E i \in Cmds, code \in {0, 1, -2} :
    /\ cmds[i].proc = "running"
    /\ cmds' = [cmds EXCEPT ![i] = onClose(@, code)]
    /\ UNCHANGED exceptCmd

NextRunCmd ==
  \/ RunCmdCall
  \/ CmdTimeout
  \/ CmdKillTimeout
  \/ CmdError
  \/ CmdClose

\* A pending timer of Node fires.
SpecRunCmd ==
  /\ Init
  /\ [][NextRunCmd]_vars
  /\ WF_vars(CmdTimeout)
  /\ WF_vars(CmdKillTimeout)

\* --------------------------------------------------------------- redaction
\* Character classes of the patterns of redactSecrets.
LowerCase == {"a", "b", "c", "d", "e", "f", "g", "h", "i", "j", "k", "l", "m", "n", "o",
              "p", "q", "r", "s", "t", "u", "v", "w", "x", "y", "z"}
UpperCase == {"A", "B", "C", "D", "E", "F", "G", "H", "I", "J", "K", "L", "M", "N", "O",
              "P", "Q", "R", "S", "T", "U", "V", "W", "X", "Y", "Z"}
Digits == {"0", "1", "2", "3", "4", "5", "6", "7", "8", "9"}
WhiteSpace == {" ", "LF", "CR", "TAB"}
OtherChars == {".", ":", "-", "_", "[", "]", "=", "/"}
TextChars == LowerCase \cup UpperCase \cup Digits \cup WhiteSpace \cup OtherChars

\* [A-Za-z0-9_-], [A-Za-z0-9_], [A-Za-z0-9-], \d, \S.
WordDash == LowerCase \cup UpperCase \cup Digits \cup {"_", "-"}
WordOnly == LowerCase \cup UpperCase \cup Digits \cup {"_"}
AlnumDash == LowerCase \cup UpperCase \cup Digits \cup {"-"}
NonSpace == TextChars \ WhiteSpace

REDACTED == << "[", "R", "E", "D", "A", "C", "T", "E", "D", "]" >>

\* The patterns (989-995): the characters of pre, one of each set in turn,
\* then n1 or more of c1, then, if sep is not empty, the characters of sep and
\* n2 or more of c2.
SecretPatterns ==
  << [pre |-> << {"s"}, {"k"}, {"-"} >>, c1 |-> WordDash, n1 |-> 10,
      sep |-> << >>, c2 |-> {}, n2 |-> 0],
     [pre |-> << {"g"}, {"h"}, {"o"}, {"_"} >>, c1 |-> WordOnly, n1 |-> 10,
      sep |-> << >>, c2 |-> {}, n2 |-> 0],
     [pre |-> << {"x"}, {"o"}, {"x"}, {"b", "a", "p", "r", "s"}, {"-"} >>,
      c1 |-> AlnumDash, n1 |-> 10, sep |-> << >>, c2 |-> {}, n2 |-> 0],
     [pre |-> << >>, c1 |-> Digits, n1 |-> 5,
      sep |-> << {":"} >>, c2 |-> WordDash, n2 |-> 10],
     [pre |-> << {"A"}, {"A"} >>, c1 |-> WordDash, n1 |-> 10,
      sep |-> << {":"} >>, c2 |-> NonSpace, n2 |-> 10] >>

\* The length of the longest run of characters of class that starts at i.
RECURSIVE runLen(_, _, _)
runLen(text, i, class) ==
  IF i > Len(text) \/ text[i] \notin class THEN 0 ELSE 1 + runLen(text, i + 1, class)

\* Whether the characters from i on are one of each set of lits in turn.
matchLits(text, i, lits) ==
  /\ i + Len(lits) - 1 <= Len(text)
  /\ \A k \in 1..Len(lits) : text[i + k - 1] \in lits[k]

\* The index after the match of pat that starts at i, 0 if there is none; the
\* quantifiers are greedy, and no shorter run can match where the longest
\* does not.
matchEnd(text, i, pat) ==
  LET j == i + Len(pat.pre)
      n == runLen(text, j, pat.c1)
      k == j + n + Len(pat.sep)
      m == runLen(text, k, pat.c2)
  IN IF ~matchLits(text, i, pat.pre) \/ n < pat.n1 THEN 0
     ELSE IF pat.sep = << >> THEN j + n
     ELSE IF ~matchLits(text, j + n, pat.sep) \/ m < pat.n2 THEN 0
     ELSE k + m

\* String.prototype.replace(/pat/g, "[REDACTED]") from index i on.
RECURSIVE replaceAll(_, _, _)
replaceAll(text, i, pat) ==
  IF i > Len(text) THEN << >>
  ELSE LET e == matchEnd(text, i, pat)
       IN IF e # 0 THEN REDACTED \o replaceAll(text, e, pat)
          ELSE << text[i] >> \o replaceAll(text, i + 1, pat)

\* redactSecrets (986-996).
redactSecrets(text) ==
  IF text = << >> THEN text
  ELSE replaceAll(replaceAll(replaceAll(replaceAll(replaceAll(
         text, 1, SecretPatterns[1]), 1, SecretPatterns[2]), 1, SecretPatterns[3]),
         1, SecretPatterns[4]), 1, SecretPatterns[5])

\* What the worker CLI may print: nothing secret, or an API key, a GitHub
\* token, a Slack token, a Telegram bot token, a token of the fifth pattern.
O_version == << " ", "v", "1", ".", "2", ".", "3", " " >>
O_plain == << "o", "k", " ", "s", "k", "-", "a", "b", "c" >>
O_short == << "1", "2", "3", "4", "5", ":", "a", "b", "c" >>
O_apiKey == << "k", "e", "y", "=", "s", "k", "-", "a", "b", "c", "D", "E", "F", "_", "1", "2", "3", "-", "x", "y", "z", " ", "o", "k" >>
O_github == << "g", "h", "o", "_", "0", "1", "2", "3", "4", "5", "6", "7", "8", "9", "a", "b" >>
O_slack == << "x", "o", "x", "b", "-", "1", "2", "3", "4", "5", "-", "a", "b", "c", "d", "e", "f" >>
O_telegram == << "b", "o", "t", " ", "1", "2", "3", "4", "5", "6", ":", "A", "B", "C", "d", "e", "f", "_", "1", "2", "3", "4", "5", " ", "s", "e", "t" >>
O_fifth == << "A", "A", "a", "b", "c", "d", "e", "f", "g", "h", "i", "j", "0", ":", "x", "/", "y", "=", "0", "1", "2", "3", "4", "5", "6", " ", "z" >>
Outputs == {O_version, O_plain, O_short, O_apiKey, O_github, O_slack, O_telegram, O_fifth}

\* The result of a runCmd call: exit code and output.
CliResults == [code : {0, 1}, output : Outputs]

answer(endpoint, code, text) == [endpoint |-> endpoint, code |-> code, text |-> text]

\* POST /setup/api/console/run with an openclaw command (1040-1106).
ConsoleRun ==
  \E r \in CliResults :
    /\ reply' = answer("console", r.code, redactSecrets(r.output))
    /\ UNCHANGED exceptReply

\* GET /setup/api/status (582-600): openclawVersion and channelsAddHelp.
StatusGet ==
  \E r \in CliResults :
    /\ \/ reply' = answer("status.version", r.code, trim(r.output))
       \/ reply' = answer("status.help", r.code, r.output)
    /\ UNCHANGED exceptReply

\* GET /setup/api/debug (928-979): the version, the channel configurations,
\* and lastDoctorOutput as runDoctorBestEffort kept it (302-304).
DebugGet ==
  \E r \in CliResults :
    /\ \/ reply' = answer("debug.version", r.code, trim(r.output))
       \/ reply' = answer("debug.channel", r.code, redactSecrets(r.output))
       \/ reply' = answer("debug.doctor", r.code, redactSecrets(r.output))
    /\ UNCHANGED exceptReply

\* POST /setup/api/run (788-796, 849, 911-912): the log events of onboard, of
\* the custom provider and of doctor --fix, and the done event of a failed
\* onboard.
OnboardRun ==
  \E r \in CliResults :
    /\ \/ reply' = answer("run.onboard", r.code, r.output)
       \/ r.code # 0 /\ reply' = answer("run.done", r.code, r.output)
       \/ reply' = answer("run.provider", r.code, r.output)
       \/ reply' = answer("run.doctor", r.code, redactSecrets(r.output))
    /\ UNCHANGED exceptReply

\* POST /setup/api/pairing/approve (1194-1201).
PairingApprove ==
  \E r \in CliResults :
    /\ reply' = answer("pairing.approve", r.code, r.output)
    /\ UNCHANGED exceptReply

\* GET /setup/api/devices/pending (1204-1216): the output of a failed
\* command; of a successful one, the fields of the document it printed.
DevicesPending ==
  \E r \in CliResults :
    /\ reply' = answer("devices.pending", r.code,
                       IF r.code # 0 THEN redactSecrets(r.output) ELSE r.output)
    /\ UNCHANGED exceptReply

\* POST /setup/api/devices/approve (1218-1224).
DevicesApprove ==
  \E r \in CliResults :
    /\ reply' = answer("devices.approve", r.code, redactSecrets(r.output))
    /\ UNCHANGED exceptReply

NextRedact ==
  \/ ConsoleRun
  \/ StatusGet
  \/ DebugGet
  \/ OnboardRun
  \/ PairingApprove
  \/ DevicesPending
  \/ DevicesApprove

SpecRedact == Init /\ [][NextRedact]_vars

\* ---- extractDeviceRequestIds (unnamed/part_011 884-897) ----

S_requestId == << "r", "e", "q", "u", "e", "s", "t", "I", "d" >>
S_quotedRequestId == << "\"", "r", "e", "q", "u", "e", "s", "t", "I", "d", "\"" >>
S_Paired == << "P", "a", "i", "r", "e", "d" >>
HexChars == Digits \cup {"a", "b", "c", "d", "e", "f", "A", "B", "C", "D", "E", "F"}

\* The lengths of the groups of a UUID.
UuidGroups == << 8, 4, 4, 4, 12 >>

\* No match at an index.
NoMatch == [from |-> 0, to |-> 0, next |-> 0]

\* The characters of word are those of text from i on.
startsAt(text, i, word) ==
  i + Len(word) - 1 <= Len(text) /\ SubSeq(text, i, i + Len(word) - 1) = word

\* \b at i: one of the characters at i - 1 and at i is a word character and
\* the other is not, or is missing.
wordBoundary(text, i) ==
  (i > 1 /\ text[i - 1] \in WordOnly) # (i <= Len(text) /\ text[i] \in WordOnly)

\* /requestId\s*(?:=|:)\s*([A-Za-z0-9_-]{6,})/ at i (889).
bareMatch(text, i) ==
  LET a == i + Len(S_requestId) + runLen(text, i + Len(S_requestId), WhiteSpace)
      b == a + 1 + runLen(text, a + 1, WhiteSpace)
      n == runLen(text, b, WordDash)
  IN IF /\ startsAt(text, i, S_requestId)
        /\ a <= Len(text)
        /\ text[a] \in {"=", ":"}
        /\ n >= 6
     THEN [from |-> b, to |-> b + n - 1, next |-> b + n]
     ELSE NoMatch

\* /"requestId"\s*:\s*"([A-Za-z0-9_-]{6,})"/ at i (890).
quotedMatch(text, i) ==
  LET a == i + Len(S_quotedRequestId) + runLen(text, i + Len(S_quotedRequestId), WhiteSpace)
      b == a + 1 + runLen(text, a + 1, WhiteSpace)
      n == runLen(text, b + 1, WordDash)
  IN IF /\ startsAt(text, i, S_quotedRequestId)
        /\ a <= Len(text)
        /\ text[a] = ":"
        /\ b <= Len(text)
        /\ text[b] = "\""
        /\ n >= 6
        /\ b + n + 1 <= Len(text)
        /\ text[b + n + 1] = "\""
     THEN [from |-> b + 1, to |-> b + n, next |-> b + n + 2]
     ELSE NoMatch

\* The index after the groups of a UUID from the k-th on, the k-th beginning
\* at i; 0 if the characters are not of that shape.
RECURSIVE uuidEnd(_, _, _)
uuidEnd(text, i, k) ==
  IF ~(i + UuidGroups[k] - 1 <= Len(text)
       /\ \A j \in i..(i + UuidGroups[k] - 1) : text[j] \in HexChars)
  THEN 0
  ELSE IF k = Len(UuidGroups) THEN i + UuidGroups[k]
  ELSE IF i + UuidGroups[k] <= Len(text) /\ text[i + UuidGroups[k]] = "-"
       THEN uuidEnd(text, i + UuidGroups[k] + 1, k + 1)
       ELSE 0

\* /\b([0-9a-f]{8}-[0-9a-f]{4}-[0-9a-f]{4}-[0-9a-f]{4}-[0-9a-f]{12})\b/gi at i
\* (894).
uuidMatch(text, i) ==
  LET e == uuidEnd(text, i, 1)
  IN IF wordBoundary(text, i) /\ e # 0 /\ wordBoundary(text, e)
     THEN [from |-> i, to |-> e - 1, next |-> e]
     ELSE NoMatch

matchAt(text, i, kind) ==
  CASE kind = "bare" -> bareMatch(text, i)
    [] kind = "quoted" -> quotedMatch(text, i)
    [] kind = "uuid" -> uuidMatch(text, i)

\* out.add(v): a Set keeps the first of equal values, in insertion order.
setAdd(out, v) == IF v \in Range(out) THEN out ELSE Append(out, v)

\* The indexes from i on where the pattern matches.
MatchesFrom(text, i, kind) == {j \in i..Len(text) : matchAt(text, j, kind) # NoMatch}

\* for (const m of s.matchAll(re)) out.add(m[1]), from index i on: the
\* leftmost match is taken and the search goes on after its end.
RECURSIVE matchAll(_, _, _, _)
matchAll(text, i, kind, out) ==
  IF MatchesFrom(text, i, kind) = {} THEN out
  ELSE LET j == CHOOSE k \in MatchesFrom(text, i, kind) :
                  \A l \in MatchesFrom(text, i, kind) : k <= l
           m == matchAt(text, j, kind)
       IN matchAll(text, m.next, kind, setAdd(out, SubSeq(text, m.from, m.to)))

\* The indexes where /Paired\b/ matches.
PairedAt(text) ==
  {i \in 1..Len(text) : startsAt(text, i, S_Paired) /\ wordBoundary(text, i + Len(S_Paired))}

\* s.split(/Paired\b/)[0] (893).
pendingSection(text) ==
  IF PairedAt(text) = {} THEN text
  ELSE SubSeq(text, 1, (CHOOSE i \in PairedAt(text) : \A j \in PairedAt(text) : i <= j) - 1)

\* An extraction that looks for UUIDs in the whole text.
extractDeviceRequestIdsEverywhere(text) ==
  matchAll(text, 1, "uuid",
           matchAll(text, 1, "quoted", matchAll(text, 1, "bare", << >>)))

\* extractDeviceRequestIds(text) (884-897).
extractDeviceRequestIds(text) ==
  matchAll(pendingSection(text), 1, "uuid",
           matchAll(text, 1, "quoted", matchAll(text, 1, "bare", << >>)))

\* The lines of the outputs.
T_bare ==
  << "r", "e", "q", "u", "e", "s", "t", "I", "d", "=", "a", "b", "c", "1", "2", "3",
     "_", "D", "E", "F", LF >>
T_quoted ==
  << "{", "\"", "r", "e", "q", "u", "e", "s", "t", "I", "d", "\"", ":", "\"", "R", "E",
     "Q", "_", "4", "5", "6", "-", "x", "y", "\"", "}", LF >>
T_colon ==
  << "r", "e", "q", "u", "e", "s", "t", "I", "d", ":", " ", "Z", "Z", "Z", "9", "9",
     "9", LF >>
T_short ==
  << "r", "e", "q", "u", "e", "s", "t", "I", "d", "=", "a", "b", "c", "1", "2", LF >>
T_paired ==
  << "P", "a", "i", "r", "e", "d", " ", "(", "1", ")", LF >>
T_pending ==
  << "P", "e", "n", "d", "i", "n", "g", " ", "(", "1", ")", LF >>
T_unpaired ==
  << "U", "n", "p", "a", "i", "r", "e", "d", " ", "d", "e", "v", "i", "c", "e", "s",
     LF >>
T_row ==
  << "|", " ", "b", "1", "e", "0", "c", "b", "6", "b", "-", "c", "9", "1", "1", "-",
     "4", "e", "8", "e", "-", "a", "f", "5", "2", "-", "c", "9", "a", "b", "a", "c",
     "6", "7", "a", "b", "3", "a", " ", "|", " ", "8", "0", "9", "2", "a", "b", "2",
     "b", "6", " ", "|", LF >>
T_rowUpper ==
  << "|", " ", "B", "1", "E", "0", "C", "B", "6", "B", "-", "C", "9", "1", "1", "-",
     "4", "E", "8", "E", "-", "A", "F", "5", "2", "-", "C", "9", "A", "B", "A", "C",
     "6", "7", "A", "B", "3", "B", " ", "|", " ", "o", "p", "e", "r", "a", "t", "o",
     "r", " ", "|", LF >>
T_device ==
  << "|", " ", "9", "3", "3", "1", "c", "d", "a", "8", "c", "b", "a", "0", "6", "5",
     "4", "c", "7", "9", "d", "2", "e", "9", "9", "a", "f", "a", "b", "e", "a", "7",
     "2", "3", "f", "0", "f", "0", "5", "a", "9", "c", "e", "4", " ", "|", " ", "o",
     "p", "e", "r", "a", "t", "o", "r", " ", "|", LF >>
T_bareUuid ==
  << "r", "e", "q", "u", "e", "s", "t", "I", "d", "=", "b", "1", "e", "0", "c", "b",
     "6", "b", "-", "c", "9", "1", "1", "-", "4", "e", "8", "e", "-", "a", "f", "5",
     "2", "-", "c", "9", "a", "b", "a", "c", "6", "7", "a", "b", "3", "a", LF >>
Lines == {<< >>, T_bare, T_quoted, T_colon, T_short, T_paired, T_pending, T_unpaired, T_row, T_rowUpper, T_device, T_bareUuid}

\* The outputs of 'openclaw devices list': three lines.
DeviceOutputs == {a \o b \o c : a \in Lines, b \in Lines, c \in Lines}

\* extractDeviceRequestIds is called on an output (part_011 1145).
ExtractIds ==
  /\ devices = NoExtract
  /\ \E text \in DeviceOutputs :
       devices' = [text |-> text, ids |-> extractDeviceRequestIds(text)]
  /\ UNCHANGED exceptDevices

NextExtract == ExtractIds

SpecExtract == Init /\ [][NextExtract]_vars

\* ---------------------------------------------------------------- shutdown
\* process.exit(0).
processExit(w) == [w EXCEPT !.phase = "exited", !.workerAtExit = w.worker]

\* process.on("SIGTERM") (1771-1786): the signal to the worker, server.close
\* and the 5 s timer.
onSigterm(w) ==
  [w EXCEPT !.phase = "terminating", !.signalled = w.handle /\ w.worker = "alive"]

\* A client connects to the server, which is listening.
ConnOpen ==
  /\ wrapper.phase = "running"
  /\ wrapper.conns < MaxConns
  /\ wrapper' = [wrapper EXCEPT !.conns = @ + 1]
  /\ UNCHANGED exceptWrapper

\* A connection ends.
ConnClose ==
  /\ wrapper.phase # "exited"
  /\ wrapper.conns > 0
  /\ wrapper' = [wrapper EXCEPT !.conns = @ - 1]
  /\ UNCHANGED exceptWrapper

\* startGateway spawns the worker (261-268).
WrapperSpawn ==
  /\ wrapper.phase # "exited"
  /\ ~wrapper.handle
  /\ wrapper.worker # "alive"
  /\ wrapper' = [wrapper EXCEPT !.worker = "alive", !.handle = TRUE]
  /\ UNCHANGED exceptWrapper

\* A stop-type handler has set gatewayProc = null (1031).
WrapperStop ==
  /\ wrapper.phase # "exited"
  /\ wrapper.handle
  /\ wrapper' = [wrapper EXCEPT !.handle = FALSE]
  /\ UNCHANGED exceptWrapper

\* The worker's 'exit' event (278-284).
WrapperWorkerExit ==
  /\ wrapper.phase # "exited"
  /\ wrapper.worker = "alive"
  /\ wrapper' = [wrapper EXCEPT !.worker = "exited", !.handle = FALSE]
  /\ UNCHANGED exceptWrapper

\* The wrapper receives SIGTERM (1771).
WrapperSigterm ==
  /\ wrapper.phase = "running"
  /\ wrapper' = onSigterm(wrapper)
  /\ UNCHANGED exceptWrapper

\* The callback of server.close: no connection is open any more (1781).
ServerClosed ==
  /\ wrapper.phase = "terminating"
  /\ wrapper.conns = 0
  /\ wrapper' = processExit(wrapper)
  /\ UNCHANGED exceptWrapper

\* The 5 s timer of the handler fires (1785).
GraceTimeout ==
  /\ wrapper.phase = "terminating"
  /\ wrapper' = processExit(wrapper)
  /\ UNCHANGED exceptWrapper

NextShutdown ==
  \/ ConnOpen
  \/ ConnClose
  \/ WrapperSpawn
  \/ WrapperStop
  \/ WrapperWorkerExit
  \/ WrapperSigterm
  \/ ServerClosed
  \/ GraceTimeout

\* A pending timer of Node fires.
SpecShutdown == Init /\ [][NextShutdown]_vars /\ WF_vars(GraceTimeout)

\* ---------------------------------------------------------------- sanity
TypeOK ==
  /\ configured \in BOOLEAN
  /\ gatewayProc \in 0..MaxLive
  /\ gatewayStarting \in AttemptPcs \ {"started"}
  /\ _restartAttempts \in 0..RESTART_MAX_ATTEMPTS
  /\ crashes \in 0..RESTART_MAX_ATTEMPTS
  /\ gatewayProc # 0 => procs[gatewayProc].st = "alive"
  /\ InFlight(S) <= MaxCalls
  /\ (gatewayStarting = "null") => SumOver(awaiting, AwaitKinds) = 0

\* ------------------------------------------------------------------ claims
\* An 'exit' event the exit handler takes for a crash, were the instance
\* configured and no operator kill in progress: a non-zero (or null) code and
\* a signal other than SIGTERM.
CrashEvent(e) == e # NoExit /\ e.signal # "SIGTERM" /\ e.code # 0

\* C1: an attempt that ensureGatewayRunning starts while the instance is
\* configured, no worker process exists and no attempt is in flight spawns
\* exactly one worker, and the calls that await it, however many, all settle
\* with the one outcome of that attempt.
C1_SingleFlight ==
  obs.settled =>
    /\ obs.spawns = 1
    /\ obs.callers >= 1
    /\ Cardinality(obs.outcomes) = 1

\* Two calls served by one attempt, which succeeded.
C1_Witness ==
  /\ obs.settled
  /\ obs.callers = 2
  /\ obs.spawns = 1
  /\ obs.outcomes = {"ok"}

\* C2: at any time at most one worker process that the supervisor spawned,
\* and whose exit it has not yet observed, is alive.
C2_AtMostOneWorker == Cardinality({p \in Procs : procs[p].st = "alive"}) <= 1

\* C3: after a restartGateway call made while a worker runs, no worker is
\* spawned until the exit event of the old worker has been observed.
C3_SpawnAfterObservedExit == ~obs.spawnOver

\* C4: of two restartGateway calls, the second does not begin to tear the
\* worker down before the first has completed: no two calls are in their
\* kill-wait at once.
C4_RestartsSerialized == SumOver(killWait, Procs) <= 1

\* C5: when a worker exits with signal SIGTERM, with code 0, or while a
\* restartGateway call is killing it, no restart timer is armed and
\* restartAttempts is unchanged.
C5_ExpectedExitArmsNothing ==
  [][ (/\ obs'.exit # NoExit
       /\ \/ obs'.exit.signal = "SIGTERM"
          \/ obs'.exit.code = 0
          \/ obs'.exit.killed)
      => (/\ obs'.delay = 0
          /\ timers' = timers
          /\ _restartTimer' = _restartTimer
          /\ _restartAttempts' = _restartAttempts) ]_vars

\* C6: when a worker exits unexpectedly (non-zero code, signal other than
\* SIGTERM, no operator kill in progress, instance configured) while no
\* restart timer is pending and restartAttempts < 10, a restart timer is
\* armed with delay min(2000 * 2^restartAttempts, 60000) ms and
\* restartAttempts grows by exactly 1.
C6_UnexpectedExitArmsBackoff ==
  [][ (/\ CrashEvent(obs'.exit)
       /\ SumOver(killWait, Procs) = 0
       /\ configured
       /\ ~_restartTimer
       /\ _restartAttempts < 10)
      => (/\ obs'.delay = Min(2000 * Pow2(_restartAttempts), 60000)
          /\ _restartTimer'
          /\ timers' = timers + 1
          /\ _restartAttempts' = _restartAttempts + 1) ]_vars

\* The sixth unexpected exit in a row: the delay has reached its cap.
C6_Witness ==
  /\ CrashEvent(obs.exit)
  /\ ~obs.exit.killed
  /\ obs.delay = 60000
  /\ _restartAttempts = 6
  /\ _restartTimer

C8_OneRestartTimer ==
  /\ [](timers <= 1 /\ (_restartTimer <=> timers = 1))
  /\ [][ (obs'.exit # NoExit /\ _restartTimer)
         => (/\ obs'.delay = 0
             /\ timers' = timers
             /\ _restartAttempts' = _restartAttempts) ]_vars

\* An unexpected exit that called scheduleGatewayRestart while a timer was
\* pending.
C8_Witness ==
  /\ CrashEvent(obs.exit)
  /\ ~obs.exit.killed
  /\ configured
  /\ ~_intentionalKill
  /\ _restartAttempts \in 1..9
  /\ obs.delay = 0
  /\ timers = 1

\* C9: every Ready transition (_gatewayReady from false to true), by whatever
\* path, leaves restartAttempts at 0.
C9_ReadyResetsAttempts ==
  [][ (~_gatewayReady /\ _gatewayReady') => _restartAttempts' = 0 ]_vars

\* C10: every request the fallback handler passes to proxy.web is passed with
\* _gatewayReady true; a request it cannot pass so is answered 503.
C10_ForwardOnlyWhenReady == obs.proxy # "fwdNotReady"

\* C11: a proxied request that arrives while a stop or restart of the worker
\* is in progress (kill signal sent, exit not yet observed) waits or is
\* answered 503: it is never forwarded while a stop-type handler or a
\* restartGateway call has signalled the worker and not yet let go of it.
C11_NoForwardDuringStop ==
  (configured /\ obs.proxy \in {"fwdReady", "fwdNotReady"})
    => (SumOver(killWait, Procs) = 0 /\ SumOver(stopping, StopKinds) = 0)

\* C12: a non-terminal WebSocket upgrade is handed to
\* proxy.ws only in a state where the instance is configured and
\* _gatewayReady is true.
C12_UpgradeOnlyConfiguredReady ==
  obs.ws \in {"fwdReady", "fwdNotReady"} => (configured /\ _gatewayReady)

\* C13: whenever the proxy reports a backend error the client is released:
\* an HTTP response whose headers are not yet sent gets status 502 and is
\* ended, every other client (a WebSocket socket, a response whose headers
\* are sent) is destroyed; no client is left open after a backend error.
C13_ErrorReleasesClient ==
  /\ [](\A i \in Clients : clients[i].errored => clients[i].state # "open")
  /\ [][ \A i \in Clients :
           (clients'[i].errored /\ ~clients[i].errored) =>
             IF clients[i].kind = "http" /\ clients[i].status = 0
             THEN clients'[i].state = "ended" /\ clients'[i].status = 502
             ELSE clients'[i].state = "destroyed" ]_vars

\* The three cases at once: a 502, a destroyed response whose headers were
\* sent, a destroyed WebSocket socket.
C13_Witness ==
  /\ \E i \in Clients : clients[i] = [kind |-> "http", state |-> "ended",
                                      status |-> 502, errored |-> TRUE]
  /\ \E i \in Clients : clients[i] = [kind |-> "http", state |-> "destroyed",
                                      status |-> 200, errored |-> TRUE]
  /\ \E i \in Clients : clients[i] = [kind |-> "ws", state |-> "destroyed",
                                      status |-> 0, errored |-> TRUE]

\* C14: in a restricted session every pseudo-terminal is the one permitted
\* program, node with the openclaw entry, with the arguments of a command
\* line that passed the allowlist and has no unsafe character, and client
\* input is written only to such a pseudo-terminal, alive and held by the
\* session; none of them is a shell.
C14_OnlyAllowlistedPty ==
  session = "restricted" =>
    /\ \A p \in Ptys :
         ptys[p].st # "free" =>
           /\ ptys[p].file = OPENCLAW_NODE
           /\ ptys[p].file # SHELL
           /\ Len(ptys[p].args) >= 2
           /\ ptys[p].args[1] = OPENCLAW_ENTRY
           /\ Tail(ptys[p].args) = Tail(split(ptys[p].line))
           /\ toLowerCase(split(ptys[p].line)[1]) = W_openclaw
           /\ ~RESTRICTED_SHELL_UNSAFE(ptys[p].line)
    /\ activePty # 0 => ptys[activePty].st = "alive"
    /\ tobs.wrote.to # 0 => (tobs.wrote.to = activePty /\ tobs.lines = << >>)

\* Input written to the pseudo-terminal of "openclaw s".
C14_Witness ==
  /\ session = "restricted"
  /\ tobs.wrote.to # 0
  /\ ptys[tobs.wrote.to].args = << OPENCLAW_ENTRY, << "s" >> >>
  /\ tobs.wrote.bytes # << >>

\* A trimmed line of the form openclaw <arg...>.
OpenclawLine(line) == Len(line) >= 10 /\ SubSeq(line, 1, 9) = W_openclaw \o Sp

\* C15: in an idle restricted session a completed line with an unsafe
\* character is rejected with an error message, spawns nothing, runs no
\* pseudo-command and leaves the session idle; a completed line
\* openclaw <arg...> without unsafe characters spawns exactly one
\* pseudo-terminal.
C15_IdleLineVerdict ==
  \A i \in 1..Len(tobs.lines) :
    LET e == tobs.lines[i]
        idleAfter == IF i < Len(tobs.lines) THEN tobs.lines[i + 1].idle
                     ELSE activePty = 0
    IN e.idle =>
         /\ RESTRICTED_SHELL_UNSAFE(e.line) =>
              /\ e.verdict \in {"unsafe", "notAllowed"}
              /\ e.spawned = {}
              /\ idleAfter
         /\ (OpenclawLine(e.line) /\ ~RESTRICTED_SHELL_UNSAFE(e.line)) =>
              /\ e.verdict = "spawn"
              /\ Cardinality(e.spawned) = 1

\* The line "openclaw s;" rejected for its ";" in an idle session.
C15_Witness ==
  /\ Len(tobs.lines) = 1
  /\ tobs.lines[1].idle
  /\ tobs.lines[1].line = W_openclaw \o Sp \o << "s", ";" >>
  /\ tobs.lines[1].verdict = "unsafe"
  /\ activePty = 0
  /\ \A p \in Ptys : ptys[p].st = "free"

\* C16: once a restricted session has spawned a pseudo-terminal, no further
\* input character received before its exit, the ones that follow the command
\* line in the same message included, is interpreted by the line editor; when
\* the pseudo-terminal exits the session is idle again and shows the prompt.
C16_RunningForwardsAll ==
  /\ ~tobs.edited
  /\ (session = "restricted" /\ tobs.exited # 0) => (activePty = 0 /\ tobs.prompt)

\* C17: when the terminal WebSocket has closed, no pseudo-terminal the session
\* spawned is alive without having been killed.
C17_CloseKillsAll ==
  (session # "none" /\ ~wsOpen) => \A p \in Ptys : ptys[p].st # "alive"

\* C18: the mode of a terminal session is fixed from TERMINAL_FULL_ACCESS when
\* the connection is accepted and never changes, and a restricted session
\* never has a shell for a pseudo-terminal.
C18_ModeFixed ==
  /\ [](session # "none" => (session = "full") = TERMINAL_FULL_ACCESS)
  /\ [][session # "none" => session' = session]_vars
  /\ [](session = "restricted" => \A p \in Ptys : ptys[p].file # SHELL)
  /\ [](session = "full" => \A p \in Ptys : ptys[p].st # "free" => ptys[p].file = SHELL)

\* A restricted session that has handled a pseudo-command and a command line
\* and holds a pseudo-terminal.
C18_Witness ==
  /\ session = "restricted"
  /\ ~TERMINAL_FULL_ACCESS
  /\ suspended.on
  /\ activePty # 0

\* A path that begins with a drive prefix: a letter and a colon.
DrivePrefix(p) == Len(p) >= 2 /\ p[1] \in Letters /\ p[2] = ":"

\* The paths an import may write: not empty, not beginning with "/", "\" or a
\* drive prefix, without a ".." segment.
SafeEntry(p) ==
  /\ p # << >>
  /\ p[1] \notin {"/", "\\"}
  /\ ~DrivePrefix(p)
  /\ ~includes(splitSlash(p), << ".", "." >>)

\* C19: an import writes an archive entry only if its path is not empty, does
\* not begin with "/", "\" or a drive prefix and has no ".." segment; every
\* other entry is dropped and the extraction goes on: ../../etc/passwd and
\* a/../../b are never written, data/file.json, which follows, is.
C19_OnlySafeEntriesWritten ==
  /\ \A p \in extracted : SafeEntry(p)
  /\ P_etc_passwd \notin extracted
  /\ P_a_up_up_b \notin extracted
  /\ (archive = << >> /\ extracted \cup skipped # {}) => P_data_file \in extracted

\* The imports that await tar.x.
Extracting == imports["extract"] + imports["extractStopped"]

\* A restart or a start of the worker is running: an attempt is in flight or
\* a restartGateway call waits for the worker's exit.
RestartRunning == gatewayStarting # "null" \/ SumOver(killWait, Procs) > 0

\* C20: no two of an import, an export and a restart or start of the worker
\* are in progress at the same time: while an import is extracting no other
\* import is extracting, no export is streaming and no restart or start of
\* the worker is running, and none is running while an export is streaming.
C20_TransfersExclusive ==
  /\ Extracting <= 1
  /\ Extracting > 0 => (exports = 0 /\ ~RestartRunning)
  /\ exports > 0 => ~RestartRunning

\* C21: while an import is extracting into the persistent directories no
\* worker process is alive: the worker that ran has exited before the first
\* write and no new worker is spawned until the extraction is finished.
C21_NoWorkerWhileExtracting ==
  Extracting > 0 => AliveSet(S) = {}

\* C22: an import that stopped a running worker has called restartGateway by
\* the time it answers, whether it succeeded or was rejected, as long as the
\* instance is configured.
C22_ImportRestartsWorker ==
  (xobs.answer # "none" /\ xobs.stopped /\ xobs.configured) => xobs.restarted

\* C23: an upload whose running byte count passes the ceiling of 250 MB is
\* rejected in the turn in which it passes it, the rest of the body is not
\* read, nothing is extracted, and the request ends with an error response.
C23_OversizeRejected ==
  upload.total > IMPORT_MAX_BYTES =>
    /\ upload.state = "rejected"
    /\ upload.kept <= IMPORT_MAX_BYTES
    /\ ~upload.extracted
    /\ upload.answer = "500"
    /\ upload.delivered

\* C24: every runCmd call eventually resolves its caller, exactly once: with
\* the exit code on close, 127 on a spawn error, 124 once the timeout has
\* elapsed; on timeout the subprocess is sent SIGTERM, and SIGKILL only after
\* that and only if it has not closed by then.
C24_RunCmdResolvesOnce ==
  /\ \A i \in Cmds : (cmds[i].proc # "none") ~> (cmds[i].result # -1)
  /\ [][ \A i \in Cmds :
           /\ cmds[i].result # -1 => cmds'[i].result = cmds[i].result
           /\ (cmds[i].result = -1 /\ cmds'[i].result # -1) =>
                \/ cmds'[i].ev = "close" /\ cmds'[i].code \in {-2, cmds'[i].result}
                \/ cmds'[i].ev = "error" /\ cmds'[i].result = 127
                \/ cmds'[i].ev = "timeout" /\ cmds'[i].result = 124
           /\ (cmds[i].result = -1 /\ cmds'[i].ev \in {"close", "error", "timeout"})
                => cmds'[i].result # -1
           /\ (cmds'[i].ev = "timeout" /\ cmds[i].timer = "pending"
                 /\ cmds[i].proc = "running") => cmds'[i].sigterm
           /\ (cmds'[i].sigkill /\ ~cmds[i].sigkill) =>
                (cmds[i].sigterm /\ cmds[i].timer = "fired" /\ cmds[i].proc # "closed")
       ]_vars
  /\ [](\A i \in Cmds : cmds[i].proc = "closed" => cmds[i].killTimer # "pending")

\* One call timed out and its subprocess, still running, was sent SIGTERM
\* and SIGKILL; another resolved with the exit code 1 of its subprocess.
C24_Witness ==
  /\ \E i \in Cmds : cmds[i].result = 124 /\ cmds[i].sigterm /\ cmds[i].sigkill
  /\ \E i \in Cmds : cmds[i].result = 1 /\ cmds[i].ev = "close"

\* C25: an explicit gateway.stop never leads to an automatic restart: when a
\* worker that a gateway.stop has signalled exits, with whatever code or
\* signal, no restart timer is armed, and while gateway.stop is the
\* operator's last word no restart timer fires.
C25_StopArmsNoRestart ==
  [][ /\ (\E p \in stopSent : procs[p].st = "alive" /\ procs'[p].st = "free")
         => (obs'.delay = 0 /\ timers' <= timers /\ (_restartTimer' => _restartTimer))
      /\ stopLast => timers' >= timers ]_vars

\* C26: when the poll of a start attempt ends without a successful connect
\* while a worker process is alive, which is what it does once the readiness
\* timeout has elapsed, the attempt fails with an error, no process is killed
\* and a background probe polls from then on; when a background probe's
\* connect succeeds while a worker process is alive, readyFlag becomes true.
C26_SlowStartKeepsProbing ==
  [][ /\ (/\ gatewayStarting = "sleep"
          /\ gatewayStarting' \in {"doctor", "null"}
          /\ AliveSet(S) # {}) =>
           /\ obs'.outcomes \subseteq {"err"}
           /\ _gatewayReady' = _gatewayReady
           /\ procs' = procs
           /\ SumOver(bgProbe', BgPcs) = SumOver(bgProbe, BgPcs) + 1
      /\ (bgProbe'["probeOk"] < bgProbe["probeOk"] /\ AliveSet(S) # {})
           => _gatewayReady' ]_vars

\* C27: when the handle has been cleared (the worker's exit or spawn error)
\* while a start attempt sleeps between two probes, the next iteration of the
\* poll returns failure: the attempt makes no further connect, starts no
\* background probe, leaves readyFlag as it is and fails.
C27_DeadWorkerFailsPoll ==
  [][ (gatewayStarting = "sleep" /\ gatewayProc = 0 /\ gatewayStarting' # "sleep") =>
        /\ gatewayStarting' \in {"doctor", "null"}
        /\ obs'.outcomes \subseteq {"err"}
        /\ bgProbe' = bgProbe
        /\ _gatewayReady' = _gatewayReady ]_vars

\* An attempt that spawned one worker has failed in the turn of a loop test,
\* its caller got the error; the worker has exited, the handle is null and no
\* background probe polls.
C27_Witness ==
  /\ obs.settled
  /\ obs.spawns = 1
  /\ obs.outcomes = {"err"}
  /\ gatewayStarting = "null"
  /\ gatewayProc = 0
  /\ AliveSet(S) = {}
  /\ SumOver(bgProbe, BgPcs) = 0
  /\ ~_gatewayReady

\* C28: when the OS fails to create the worker (the 'error' event of the
\* handle, with no 'exit' event), the handle is cleared, readyFlag is false,
\* the attempt that spawned it fails at its next step, and a backoff restart
\* is scheduled per RestartPolicy: if no restart timer is pending and
\* restartAttempts < 10, one is armed and restartAttempts grows by 1.
C28_SpawnErrorSchedulesRestart ==
  [][ (/\ gatewayProc # 0
       /\ procs[gatewayProc].st = "alive"
       /\ procs'[gatewayProc].st = "free"
       /\ obs'.exit = NoExit) =>
        /\ gatewayProc' = 0
        /\ ~_gatewayReady'
        /\ gatewayStarting' = gatewayStarting
        /\ (~_restartTimer /\ _restartAttempts < RESTART_MAX_ATTEMPTS) =>
             /\ _restartTimer'
             /\ timers' = timers + 1
             /\ _restartAttempts' = _restartAttempts + 1 ]_vars

\* C29: in a configured instance whose spawned worker stays alive and binds
\* the port before the readiness deadline, a call that awaits the start
\* attempt is eventually resolved ok with readyFlag true.
C29_ReadyEventually ==
  \A k \in AwaitKinds :
    (awaiting[k] > 0) ~>
      (/\ _gatewayReady
       /\ obs.outcomes = {"ok"}
       /\ obs.callers >= 1
       /\ awaiting[k] = 0)

\* Two calls have just been resolved ok by the attempt that spawned the
\* worker, which listens and is ready.
C29_Witness ==
  /\ _gatewayReady
  /\ obs.settled
  /\ obs.outcomes = {"ok"}
  /\ obs.callers = 2
  /\ gatewayProc # 0
  /\ procs[gatewayProc].listening

\* C30: the worker handle, readyFlag and the restart timer are changed only
\* by supervisor operations: a step of another component that calls none of
\* them (a stop-type handler of the console, the terminal, import, reset or
\* wipe before or after its sleep, the writing or deleting of the config
\* file) leaves all three unchanged.
C30_SupervisorOwnsHandle ==
  [][ (stopping' # stopping \/ configured' # configured) =>
        /\ gatewayProc' = gatewayProc
        /\ _gatewayReady' = _gatewayReady
        /\ _restartTimer' = _restartTimer
        /\ timers' = timers ]_vars

\* C31: the text that an endpoint returns from an invocation of the worker
\* CLI has passed through redactSecrets: it holds no recognizable secret, so
\* redacting it again changes nothing.
C31_CliOutputRedacted ==
  reply.endpoint # "none" => redactSecrets(reply.text) = reply.text

\* C32: after SIGTERM the wrapper sends SIGTERM to a worker that is alive,
\* does not exit while that worker is alive, and exits within the grace
\* window whatever the worker and the connections do.
C32_GracefulShutdown ==
  /\ [][ (wrapper.phase = "running" /\ wrapper'.phase = "terminating"
            /\ wrapper.worker = "alive") => wrapper'.signalled ]_vars
  /\ [](wrapper.phase = "exited" => wrapper.workerAtExit # "alive")
  /\ (wrapper.phase = "terminating") ~> (wrapper.phase = "exited")

\* The paths of an export's archive that an import may write, relative to
\* /data.
SafeExported == {pathResolve(p) : p \in {q \in backup.entries : SafeEntry(q)}}

queryOf(url) ==
  IF "?" \in Range(url)
  THEN SubSeq(url, Len(reqPath(url)) + 1, Len(url))
  ELSE << >>

\* The path is under /openclaw/ and ends with a recognized extension.
StaticAssetPath(path) ==
  /\ startsWith(path, S_openclawPrefix \o << "/" >>)
  /\ \E e \in StaticExts : \E s \in {path} \cup {toLowerCase(path)} :
       endsWith(s, << "." >> \o e)

\* C34: for every proxied request URL, if its path starts with "/openclaw/"
\* and ends with a recognized static-file extension, the forwarded URL is the
\* path without the "/openclaw" prefix followed by the unchanged query
\* string; otherwise the URL is forwarded unchanged.
C34_StaticRewrite ==
  rewrite # NoRewrite =>
    IF StaticAssetPath(reqPath(rewrite.url))
    THEN /\ S_openclawPrefix \o rewrite.forwarded = rewrite.url
         /\ endsWith(rewrite.forwarded, queryOf(rewrite.url))
         /\ Len(rewrite.forwarded) = Len(rewrite.url) - Len(S_openclawPrefix)
    ELSE rewrite.forwarded = rewrite.url

\* /openclaw/a.JS?f=a.css has been forwarded as /a.JS?f=a.css.
C34_Witness ==
  /\ rewrite.url = S_openclawPrefix \o << "/", "a", ".", "J", "S", "?", "f", "=", "a", ".", "c", "s", "s" >>
  /\ rewrite.forwarded = << "/", "a", ".", "J", "S", "?", "f", "=", "a", ".", "c", "s", "s" >>

\* The credential a request on the terminal path carries is the right one.
RightCredential ==
  /\ startsWith(queryOfUrl(gate.url), S_tokenParam \o encodeURIComponent(gate.credential))
  /\ gate.credential \in {<< "O", "j", "4", "+", "P", "w", "=", "=" >>, << "d", "T", "o", "+", "P", "j", "8", "=" >>}

\* C35: a terminal session is created only for an upgrade request on the
\* terminal path whose query-string credential decodes to the setup password;
\* a request on that path with a missing or wrong credential gets 401 and its
\* socket is destroyed, without a session; and the WebSocket gate accepts a
\* credential exactly when the HTTP Basic-auth gate accepts it.
C35_TerminalGate ==
  gate # NoGate =>
    /\ gate.ws = "session" => (reqPath(gate.url) = S_terminalPath /\ RightCredential)
    /\ (reqPath(gate.url) = S_terminalPath /\ ~RightCredential) => gate.ws = "401 destroyed"
    /\ authenticateWs(S_tokenParam \o encodeURIComponent(gate.credential))
         <=> (gate.http = 200)

\* The identifiers that follow requestId with "=" or ":", bare or quoted,
\* anywhere in a text.
RequestIdsIn(text) ==
  {SubSeq(text, m.from, m.to) :
     m \in {matchAt(text, i, kind) : i \in 1..Len(text), kind \in {"bare", "quoted"}}
            \ {NoMatch}}

\* The UUIDs that occur in a text.
UuidsIn(text) ==
  {SubSeq(text, m.from, m.to) : m \in {uuidMatch(text, i) : i \in 1..Len(text)} \ {NoMatch}}

\* The runs of 9 or more hexadecimal characters and dashes of a text.
HexIdsIn(text) ==
  {SubSeq(text, i, i + runLen(text, i, HexChars \cup {"-"}) - 1) :
     i \in {j \in 1..Len(text) : /\ runLen(text, j, HexChars \cup {"-"}) >= 9
                                  /\ (j = 1 \/ text[j - 1] \notin HexChars \cup {"-"})}}

\* C36: extractDeviceRequestIds returns, without duplicates, exactly the
\* identifiers of at least 6 characters that follow requestId with "=" or ":"
\* (bare or JSON-quoted) anywhere in the text, and the UUIDs that occur before
\* the first Paired marker; a UUID or hex id that occurs only after the
\* marker, and not as a requestId, is not returned.
C36_ExtractDeviceRequestIds ==
  LET text == devices.text
      ids == devices.ids
      before == pendingSection(text)
      after == SubSeq(text, Len(before) + 1, Len(text))
  IN /\ \A i, j \in 1..Len(ids) : ids[i] = ids[j] => i = j
     /\ Range(ids) = RequestIdsIn(text) \cup UuidsIn(before)
     /\ \A id \in RequestIdsIn(text) : Len(id) >= 6
     /\ \A id \in (UuidsIn(after) \cup HexIdsIn(after))
                     \ (UuidsIn(before) \cup RequestIdsIn(text)) : id \notin Range(ids)

\* The UUID of a pending request and, after the Paired line, the UUID of
\* another row: the first is returned.
C36_Witness ==
  /\ devices.text = T_row \o T_paired \o T_rowUpper
  /\ Len(devices.ids) = 1

\* C37: in every reachable state, readyFlag true implies that a worker handle
\* is held for a process whose exit has not been observed; every operation
\* that clears the handle leaves readyFlag false.
C37_ReadyImpliesLiveHandle ==
  _gatewayReady => (gatewayProc # 0 /\ procs[gatewayProc].st = "alive")

\* C38: the exit event of a worker process that is no longer the current
\* handle, and on which no restartGateway call waits, leaves the current
\* worker's handle and readyFlag unchanged and schedules no restart.
C38_StaleExitChangesNothing ==
  [][ \A p \in Procs :
        (/\ procs[p].st = "alive"
         /\ procs'[p].st = "free"
         /\ gatewayProc \notin {0, p}
         /\ killWait[p] = 0) =>
          /\ gatewayProc' = gatewayProc
          /\ _gatewayReady' = _gatewayReady
          /\ obs'.delay = 0
          /\ timers' <= timers
          /\ (_restartTimer' => _restartTimer) ]_vars

\* C39: in every reachable state a restricted session has at most one live
\* pseudo-terminal, and activePty refers to it whenever one is live.
C39_OneLivePty ==
  session = "restricted" =>
    /\ Cardinality({p \in Ptys : ptys[p].st = "alive"}) <= 1
    /\ \A p \in Ptys : ptys[p].st = "alive" => activePty = p

\* C40: while a restricted session's handler awaits the supervisor for a
\* pseudo-command, a message that arrives is neither line-edited nor
\* executed: as long as the handler has not resumed, the input buffer is as
\* it was, no line is completed and no pseudo-terminal is spawned.
C40_PseudoCommandBlocksInput ==
  [][ (suspended.on /\ suspended' = suspended) =>
        /\ inputBuf' = inputBuf
        /\ tobs'.lines = << >>
        /\ \A p \in Ptys : ptys[p].st = "free" => ptys'[p].st = "free" ]_vars

====
